---------------------------- MODULE Spec2Model ----------------------------
(***************************************************************************)
(* A model of the keyword-to-book generator: the resilient remote caller   *)
(* (callDeepSeek), the free-text JSON extractor (extractJSON) and the      *)
(* POST /generate-book pipeline that is built on both.                     *)
(*                                                                         *)
(* Texts are sequences of one-character strings.  Five specifications      *)
(* share the module; each holds the other components' variables fixed:     *)
(*   SpecExtract  one extractJSON scan over a text drawn by Init           *)
(*   SpecCall     one callDeepSeek call against an arbitrary endpoint      *)
(*   Spec         the server: a POST /generate-book request, then further  *)
(*                requests (generate-book, assemble-book, generate,        *)
(*                download, delete), one at a time                         *)
(*   SpecPersist  two POST /generate-book handlers at their persist stage  *)
(*                at once                                                  *)
(*   SpecStaged   the keyword page's submit handler and the staged routes  *)
(*                it calls one after the other                             *)
(***************************************************************************)
EXTENDS Integers, Sequences, FiniteSets, TLC

VARIABLES
    str,        \* extractJSON: the text being scanned
    scan,       \* extractJSON: the locals of the scan and its return value
    call,       \* callDeepSeek: the state of one call
    replies,    \* callDeepSeek: what the endpoint did on each attempt so far
    console,    \* callDeepSeek: the console.warn lines, <<attempt, cause>>
    req,        \* the request body: {keywords, chapters}, and for
                \* /assemble-book also {overview, outline, chaptersRaw}
    pc,         \* /generate-book: the await the handler is suspended at
    chapterCount, \* /generate-book: parseInt(chapters, 10)
    overview,   \* /generate-book: the overview stage's result
    outline,    \* /generate-book: the outline stage's result (a JSON value)
    stageCall,  \* /generate-book: the overview or outline callDeepSeek call
    chapterCalls, \* /generate-book: the chapter calls, in outline order
    book,       \* /generate-book: fullBook and slug once assembled
    store,      \* the key-value store: key -> text
    response,   \* /generate-book, /generate: the response sent, if any
    kind,       \* the route of the request being served
    served,     \* how many requests have been accepted
    before,     \* the store when the request being served arrived
    target,     \* /download: the filename; DELETE /redis: the key
    download,   \* /download: the response sent, if any
    gen,         \* /generate: the overview, the slug and the content
    settled,    \* /generate-book: the chapter indices in the order their calls
                \* returned
    issued,     \* the number of callDeepSeek invocations of the request, by
                \* stage
    runs,       \* /generate-book handlers running at once, at their persist
                \* stage: each one's locals, position and response
    flow        \* the submit handler of the keyword page: its locals, its
                \* position, and the requests it has sent with their outcomes

(***************************************************************************)
(* Bounds of the model.                                                    *)
(***************************************************************************)
MaxLen == 6

(***************************************************************************)
(* Characters.  Chars is the alphabet of the exhaustively enumerated       *)
(* texts: the six characters extractJSON looks at plus one character, the  *)
(* digit 1, that it does not (prose outside JSON, a number inside).        *)
(***************************************************************************)
QUOTE == "\""
BSLASH == "\\"
Chars == {"[", "]", "{", "}", QUOTE, BSLASH, "1"}
Openers == {"{", "["}
Delims == {"{", "}", "[", "]"}
Digits == {"0", "1", "2", "3", "4", "5", "6", "7", "8", "9"}
WS == {" ", "\n", "\t", "\r"}
EOF == "<eof>"

At(t, p) == IF p >= 1 /\ p <= Len(t) THEN t[p] ELSE EOF

(***************************************************************************)
(* JSON.parse, as a recursive-descent parser over a text.  Values are      *)
(* tagged records: [kind |-> "num"|"str"|"arr"|"obj"|"lit", val |-> ...];  *)
(* an object's val is the sequence of its members in insertion order, a    *)
(* repeated key keeping its place and taking the last value.  Fractions,   *)
(* exponents and \u escapes are left out: no text of the model has them.   *)
(***************************************************************************)
JNone == [kind |-> "none", val |-> 0]
JFail == [ok |-> FALSE, val |-> JNone, pos |-> 0]
JOk(v, p) == [ok |-> TRUE, val |-> v, pos |-> p]

DigitVal(c) ==
    CASE c = "0" -> 0 [] c = "1" -> 1 [] c = "2" -> 2 [] c = "3" -> 3
      [] c = "4" -> 4 [] c = "5" -> 5 [] c = "6" -> 6 [] c = "7" -> 7
      [] c = "8" -> 8 [] c = "9" -> 9

EscapeChars == {QUOTE, BSLASH, "/", "b", "f", "n", "r", "t"}
Unescape(c) ==
    CASE c = QUOTE -> QUOTE [] c = BSLASH -> BSLASH [] c = "/" -> "/"
      [] c = "b" -> "<bs>" [] c = "f" -> "\f" [] c = "n" -> "\n"
      [] c = "r" -> "\r" [] c = "t" -> "\t"

RECURSIVE SkipWS(_, _)
SkipWS(t, p) == IF At(t, p) \in WS THEN SkipWS(t, p + 1) ELSE p

RECURSIVE ParseString(_, _, _)
ParseString(t, p, acc) ==
    LET c == At(t, p) IN
    IF c = EOF \/ c \in WS \ {" "} THEN JFail
    ELSE IF c = QUOTE THEN JOk([kind |-> "str", val |-> acc], p + 1)
    ELSE IF c = BSLASH
         THEN IF At(t, p + 1) \in EscapeChars
              THEN ParseString(t, p + 2, Append(acc, Unescape(At(t, p + 1))))
              ELSE JFail
    ELSE ParseString(t, p + 1, Append(acc, c))

RECURSIVE ParseDigits(_, _, _)
ParseDigits(t, p, acc) ==
    IF At(t, p) \in Digits
    THEN ParseDigits(t, p + 1, 10 * acc + DigitVal(At(t, p)))
    ELSE JOk([kind |-> "num", val |-> acc], p)

ParseNumber(t, p) ==
    LET neg == At(t, p) = "-"
        q == IF neg THEN p + 1 ELSE p
        r == IF At(t, q) = "0" THEN JOk([kind |-> "num", val |-> 0], q + 1)
             ELSE IF At(t, q) \in Digits THEN ParseDigits(t, q, 0)
             ELSE JFail
    IN  IF r.ok /\ neg
        THEN JOk([kind |-> "num", val |-> 0 - r.val.val], r.pos)
        ELSE r

ParseLiteral(t, p, word) ==
    IF p + Len(word) - 1 <= Len(t) /\ SubSeq(t, p, p + Len(word) - 1) = word
    THEN JOk([kind |-> "lit", val |-> word], p + Len(word))
    ELSE JFail

RECURSIVE PutMember(_, _, _)
PutMember(ms, k, v) ==
    IF ms = <<>> THEN <<[key |-> k, val |-> v]>>
    ELSE IF Head(ms).key = k THEN <<[key |-> k, val |-> v]>> \o Tail(ms)
    ELSE <<Head(ms)>> \o PutMember(Tail(ms), k, v)

RECURSIVE ParseValue(_, _)
RECURSIVE ParseElems(_, _, _)
RECURSIVE ParseMembers(_, _, _)

ParseElems(t, p, acc) ==
    LET r == ParseValue(t, p)
        q == SkipWS(t, r.pos)
    IN  IF ~r.ok THEN JFail
        ELSE IF At(t, q) = "," THEN ParseElems(t, q + 1, Append(acc, r.val))
        ELSE IF At(t, q) = "]"
             THEN JOk([kind |-> "arr", val |-> Append(acc, r.val)], q + 1)
        ELSE JFail

ParseMembers(t, p, acc) ==
    LET p1 == SkipWS(t, p)
        k == IF At(t, p1) = QUOTE THEN ParseString(t, p1 + 1, <<>>) ELSE JFail
        p2 == SkipWS(t, k.pos)
        r == IF k.ok /\ At(t, p2) = ":" THEN ParseValue(t, p2 + 1) ELSE JFail
        q == SkipWS(t, r.pos)
    IN  IF ~r.ok THEN JFail
        ELSE IF At(t, q) = ","
             THEN ParseMembers(t, q + 1, PutMember(acc, k.val.val, r.val))
        ELSE IF At(t, q) = "}"
             THEN JOk([kind |-> "obj", val |-> PutMember(acc, k.val.val, r.val)],
                      q + 1)
        ELSE JFail

ParseValue(t, p0) ==
    LET p == SkipWS(t, p0)
        c == At(t, p)
    IN  IF c = QUOTE THEN ParseString(t, p + 1, <<>>)
        ELSE IF c = "["
             THEN IF At(t, SkipWS(t, p + 1)) = "]"
                  THEN JOk([kind |-> "arr", val |-> <<>>], SkipWS(t, p + 1) + 1)
                  ELSE ParseElems(t, p + 1, <<>>)
        ELSE IF c = "{"
             THEN IF At(t, SkipWS(t, p + 1)) = "}"
                  THEN JOk([kind |-> "obj", val |-> <<>>], SkipWS(t, p + 1) + 1)
                  ELSE ParseMembers(t, p + 1, <<>>)
        ELSE IF c = "-" \/ c \in Digits THEN ParseNumber(t, p)
        ELSE IF c = "t" THEN ParseLiteral(t, p, <<"t", "r", "u", "e">>)
        ELSE IF c = "f" THEN ParseLiteral(t, p, <<"f", "a", "l", "s", "e">>)
        ELSE IF c = "n" THEN ParseLiteral(t, p, <<"n", "u", "l", "l">>)
        ELSE JFail

JSONParse(t) ==
    LET r == ParseValue(t, 1)
    IN  IF r.ok /\ SkipWS(t, r.pos) = Len(t) + 1 THEN r ELSE JFail

(***************************************************************************)
(* extractJSON.  The scan state holds the locals of the function: the      *)
(* cursor i (0-based, the next index to read), depth, start (NoStart is    *)
(* the code's null), inString, escape; done/found/json/index are its       *)
(* return ({json, index}, or null when found is FALSE); tries counts the   *)
(* JSON.parse calls that threw.                                            *)
(***************************************************************************)
NoStart == -1

ScanInit ==
    [i |-> 0, depth |-> 0, start |-> NoStart, inString |-> FALSE,
     escape |-> FALSE, done |-> FALSE, found |-> FALSE, json |-> JNone,
     index |-> NoStart, tries |-> 0]

\* a parse that never throws: what the catch would hide if the block were
\* returned unparsed
TryParseLenient(block) ==
    JOk([kind |-> "str", val |-> block], Len(block) + 1)

\* try { return { json: JSON.parse(block), index: start }; } catch {}
TryParse(block) == JSONParse(block)

\* return { json, index: start } when the parse r succeeded, else the
\* empty catch and on to the next character
ReturnOrContinue(s, r) ==
    IF r.ok
    THEN [s EXCEPT !.done = TRUE, !.found = TRUE, !.json = r.val,
                   !.index = s.start]
    ELSE [s EXCEPT !.tries = @ + 1, !.i = @ + 1]

\* the slice-and-parse at a closing delimiter; s already holds the new depth
CloseSpan(t, s) ==
    ReturnOrContinue(s, TryParse(SubSeq(t, s.start + 1, s.i + 1)))

\* the string branch without its escape flag: a backslash is skipped like
\* any other character, so an escaped quote closes the literal
InStringStepNoEscape(s, c) ==
    IF c = QUOTE THEN [s EXCEPT !.inString = FALSE, !.i = @ + 1]
    ELSE [s EXCEPT !.i = @ + 1]

\* the branch taken while inside a string literal
InStringStep(s, c) ==
    IF s.escape THEN [s EXCEPT !.escape = FALSE, !.i = @ + 1]
    ELSE IF c = BSLASH THEN [s EXCEPT !.escape = TRUE, !.i = @ + 1]
    ELSE IF c = QUOTE THEN [s EXCEPT !.inString = FALSE, !.i = @ + 1]
    ELSE [s EXCEPT !.i = @ + 1]

\* the guards of the two array branches
OpensArray(s, c) == c = "[" /\ s.depth = 0
ClosesArray(s, c) == c = "]" /\ s.depth = 1 /\ s.start # NoStart

\* the loop body with a closing brace counted at any depth
LoopBodyAnyDepth(t, s) ==
    LET c == t[s.i + 1] IN
    IF s.inString THEN InStringStep(s, c)
    ELSE IF c = QUOTE THEN [s EXCEPT !.inString = TRUE, !.i = @ + 1]
    ELSE IF c = "{"
         THEN [s EXCEPT !.start = IF s.depth = 0 THEN s.i ELSE @,
                        !.depth = @ + 1, !.i = @ + 1]
    ELSE IF c = "}"
         THEN IF s.depth - 1 = 0 /\ s.start # NoStart
              THEN CloseSpan(t, [s EXCEPT !.depth = @ - 1])
              ELSE [s EXCEPT !.depth = @ - 1, !.i = @ + 1]
    ELSE IF OpensArray(s, c)
         THEN [s EXCEPT !.start = s.i, !.depth = 1, !.i = @ + 1]
    ELSE IF ClosesArray(s, c)
         THEN CloseSpan(t, [s EXCEPT !.depth = 0])
    ELSE [s EXCEPT !.i = @ + 1]

\* one iteration of the for loop, reading t[s.i] (0-based)
LoopBody(t, s) ==
    LET c == t[s.i + 1] IN
    IF s.inString THEN InStringStep(s, c)
    ELSE IF c = QUOTE THEN [s EXCEPT !.inString = TRUE, !.i = @ + 1]
    ELSE IF c = "{"
         THEN [s EXCEPT !.start = IF s.depth = 0 THEN s.i ELSE @,
                        !.depth = @ + 1, !.i = @ + 1]
    ELSE IF c = "}" /\ s.depth > 0
         THEN IF s.depth - 1 = 0 /\ s.start # NoStart
              THEN CloseSpan(t, [s EXCEPT !.depth = @ - 1])
              ELSE [s EXCEPT !.depth = @ - 1, !.i = @ + 1]
    ELSE IF OpensArray(s, c)
         THEN [s EXCEPT !.start = s.i, !.depth = 1, !.i = @ + 1]
    ELSE IF ClosesArray(s, c)
         THEN CloseSpan(t, [s EXCEPT !.depth = 0])
    ELSE [s EXCEPT !.i = @ + 1]

\* the return null after the loop
LoopExit(s) == [s EXCEPT !.done = TRUE, !.found = FALSE]

\* one pass through the loop head: the body while i < str.length, the
\* return null once the loop is left, nothing after a return
LoopStep(t, s) ==
    IF s.done THEN s
    ELSE IF s.i < Len(t) THEN LoopBody(t, s)
    ELSE LoopExit(s)

\* up to n >= 1 passes through the loop head, split in halves; the scan
\* stops at the first return.  The state after the first half is bound as
\* a value (m), so that it is computed once.
RECURSIVE ScanSteps(_, _, _)
ScanSteps(t, s, n) ==
    IF s.done THEN s
    ELSE IF n = 1 THEN LoopStep(t, s)
    ELSE CHOOSE r \in {ScanSteps(t, m, n - (n \div 2)) :
                          m \in {ScanSteps(t, s, n \div 2)}} : TRUE

\* extractJSON(str) for a string argument: the final scan state.  Every
\* pass advances i or returns, so Len(t) + 1 passes reach the return.
ExtractJSON(t) == ScanSteps(t, ScanInit, Len(t) + 1)

(***************************************************************************)
(* JavaScript values that flow through the caller.  A result is the text   *)
(* of a reply or the null/undefined the code folds into null.              *)
(***************************************************************************)
Null == [isNull |-> TRUE, text |-> <<>>]
Text(t) == [isNull |-> FALSE, text |-> t]
Falsy(v) == v.isNull \/ v.text = <<>>
\* x || null
OrNull(v) == IF Falsy(v) THEN Null ELSE v

(***************************************************************************)
(* callDeepSeek.  A call is at the axios.post await ("request"), at the    *)
(* setTimeout await ("sleep") or has returned; a is the loop counter,      *)
(* delay the running timer, waited the sum of the timers that have fired.  *)
(***************************************************************************)
MaxRetries == 6
BaseDelay == 1000

RECURSIVE Pow2(_)
Pow2(n) == IF n = 0 THEN 1 ELSE 2 * Pow2(n - 1)

\* a delay that grows by one base delay per attempt instead of doubling
BackoffLinear(a) == BaseDelay * a

\* 1000 * 2 ** (a - 1)
Backoff(a) == BaseDelay * Pow2(a - 1)

CallInit ==
    [pc |-> "request", a |-> 1, ret |-> Null, delay |-> 0, waited |-> 0]

\* return data.choices[0]?.message?.content || null
OnResponse(c, content) ==
    [c EXCEPT !.pc = "returned", !.ret = OrNull(content)]

\* a catch that gives up one attempt early
OnErrorEarly(c) ==
    IF c.a = MaxRetries - 1
    THEN [c EXCEPT !.pc = "returned", !.ret = Null]
    ELSE [c EXCEPT !.pc = "sleep", !.delay = Backoff(c.a)]

\* a catch that waits one base delay whatever the attempt
OnErrorFlatDelay(c) ==
    IF c.a = MaxRetries
    THEN [c EXCEPT !.pc = "returned", !.ret = Null]
    ELSE [c EXCEPT !.pc = "sleep", !.delay = BaseDelay]

\* the catch block: give up on the last attempt, else start the timer
OnError(c) ==
    IF c.a = MaxRetries
    THEN [c EXCEPT !.pc = "returned", !.ret = Null]
    ELSE [c EXCEPT !.pc = "sleep", !.delay = Backoff(c.a)]

\* the timer fires and the loop goes round: a++
OnTimer(c) ==
    [c EXCEPT !.pc = "request", !.a = @ + 1, !.waited = @ + c.delay,
              !.delay = 0]

\* What the endpoint can do on one attempt.  An error is anything thrown
\* inside the try: a transport error, a non-success status, the 90 s
\* timeout, or a body without a choices array (data.choices[0] throws).
Causes == {"network", "status", "timeout", "nochoices"}
\* The content of a 2xx reply: a text, the empty text, or nothing
\* (choices empty, or no message: the ?. chain yields undefined).
Payload == <<"o", "k">>
Contents == {Text(Payload), Text(<<>>), Null}

(***************************************************************************)
(* JavaScript helpers of the /generate-book handler.                       *)
(***************************************************************************)
JUndef == [kind |-> "undef", val |-> 0]
JStr(t) == [kind |-> "str", val |-> t]

\* v[key] for a property name that is not an array index
RECURSIVE Lookup(_, _)
Lookup(ms, key) ==
    IF ms = <<>> THEN JUndef
    ELSE IF Head(ms).key = key THEN Head(ms).val
    ELSE Lookup(Tail(ms), key)
Prop(v, key) == IF v.kind = "obj" THEN Lookup(v.val, key) ELSE JUndef

TitleKey == <<"t", "i", "t", "l", "e">>
SynopsisKey == <<"s", "y", "n", "o", "p", "s", "i", "s">>

\* the decimal digits of a natural number
DigitChar(d) == <<"0", "1", "2", "3", "4", "5", "6", "7", "8", "9">>[d + 1]
RECURSIVE NatText(_)
NatText(n) ==
    IF n < 10 THEN <<DigitChar(n)>>
    ELSE Append(NatText(n \div 10), DigitChar(n % 10))
IntText(n) == IF n < 0 THEN <<"-">> \o NatText(0 - n) ELSE NatText(n)

\* JSON.stringify
RECURSIVE Stringify(_)
RECURSIVE StringifyElems(_)
RECURSIVE StringifyMembers(_)
RECURSIVE QuoteText(_)
QuoteText(t) ==
    IF t = <<>> THEN <<>>
    ELSE (IF Head(t) \in {QUOTE, BSLASH} THEN <<BSLASH, Head(t)>>
          ELSE <<Head(t)>>) \o QuoteText(Tail(t))
StringifyElems(vs) ==
    IF vs = <<>> THEN <<>>
    ELSE Stringify(Head(vs))
         \o (IF Tail(vs) = <<>> THEN <<>> ELSE <<",">> \o StringifyElems(Tail(vs)))
StringifyMembers(ms) ==
    IF ms = <<>> THEN <<>>
    ELSE <<QUOTE>> \o QuoteText(Head(ms).key) \o <<QUOTE, ":">>
         \o Stringify(Head(ms).val)
         \o (IF Tail(ms) = <<>> THEN <<>>
             ELSE <<",">> \o StringifyMembers(Tail(ms)))
Stringify(v) ==
    CASE v.kind = "str" -> <<QUOTE>> \o QuoteText(v.val) \o <<QUOTE>>
      [] v.kind = "num" -> IntText(v.val)
      [] v.kind = "lit" -> v.val
      [] v.kind = "arr" -> <<"[">> \o StringifyElems(v.val) \o <<"]">>
      [] v.kind = "obj" -> <<"{">> \o StringifyMembers(v.val) \o <<"}">>

\* ${v} in a template literal
Interpolate(v) ==
    CASE v.kind = "str" -> v.val
      [] v.kind = "num" -> IntText(v.val)
      [] v.kind = "lit" -> v.val
      [] v.kind = "undef" -> <<"u", "n", "d", "e", "f", "i", "n", "e", "d">>
      [] v.kind = "obj" -> <<"[object Object]">>
      [] v.kind = "arr" -> <<"[array]">>

\* parseInt(text, 10): the leading integer of the text, or NaN
NaN == [nan |-> TRUE, n |-> 0]
Num(n) == [nan |-> FALSE, n |-> n]
ParseInt(t) ==
    LET p == SkipWS(t, 1)
        r == ParseDigits(t, p, 0)
    IN  IF At(t, p) \in Digits THEN Num(r.val.val) ELSE NaN
\* x < k and x > k, false for NaN
Lt(x, k) == ~x.nan /\ x.n < k
Gt(x, k) == ~x.nan /\ x.n > k
NumText(x) == IF x.nan THEN <<"N", "a", "N">> ELSE IntText(x.n)

\* text.split(sep)[0]: the part before the first occurrence of sep
RECURSIVE BeforeSep(_, _)
BeforeSep(t, sep) ==
    IF Len(t) < Len(sep) THEN t
    ELSE IF SubSeq(t, 1, Len(sep)) = sep THEN <<>>
    ELSE <<Head(t)>> \o BeforeSep(Tail(t), sep)
\* the en dash of the separator and of slugify's character map
ENDASH == "<endash>"
TitleSep == <<" ", ENDASH, " ">>

\* text.trim()
RECURSIVE TrimLeft(_)
TrimLeft(t) == IF t # <<>> /\ Head(t) \in WS THEN TrimLeft(Tail(t)) ELSE t
RECURSIVE TrimRight(_)
TrimRight(t) ==
    IF t # <<>> /\ t[Len(t)] \in WS THEN TrimRight(SubSeq(t, 1, Len(t) - 1))
    ELSE t
Trim(t) == TrimRight(TrimLeft(t))

\* slugify(text, { lower: true, strict: true }): a hyphen or dash becomes a
\* space, every other character that is no letter, digit or space is
\* dropped, the ends are trimmed, each run of spaces becomes one "-", and
\* letters are lower-cased
UpperLetters ==
    <<"A", "B", "C", "D", "E", "F", "G", "H", "I", "J", "K", "L", "M",
      "N", "O", "P", "Q", "R", "S", "T", "U", "V", "W", "X", "Y", "Z">>
LowerLetters ==
    <<"a", "b", "c", "d", "e", "f", "g", "h", "i", "j", "k", "l", "m",
      "n", "o", "p", "q", "r", "s", "t", "u", "v", "w", "x", "y", "z">>
IsUpper(c) == \E k \in 1..26 : UpperLetters[k] = c
IsLower(c) == \E k \in 1..26 : LowerLetters[k] = c
ToLower(c) ==
    IF IsUpper(c) THEN LowerLetters[CHOOSE k \in 1..26 : UpperLetters[k] = c]
    ELSE c
RECURSIVE SlugChars(_)
SlugChars(t) ==
    IF t = <<>> THEN <<>>
    ELSE LET c == Head(t) IN
         (IF c \in WS \cup {"-", ENDASH} THEN <<" ">>
          ELSE IF IsUpper(c) \/ IsLower(c) \/ c \in Digits THEN <<c>>
          ELSE <<>>) \o SlugChars(Tail(t))
RECURSIVE JoinWords(_)
JoinWords(t) ==
    IF t = <<>> THEN <<>>
    ELSE IF Head(t) = " "
         THEN <<"-">> \o JoinWords(TrimLeft(t))
    ELSE <<ToLower(Head(t))>> \o JoinWords(Tail(t))
Slugify(t) == JoinWords(Trim(SlugChars(t)))

(***************************************************************************)
(* The pieces of the POST /generate-book handler.                          *)
(***************************************************************************)
MinChapters == 3
MaxChapters == 15

NoResponse == [status |-> 0, error |-> "", slug |-> <<>>]
Fail(status, error) == [status |-> status, error |-> error, slug |-> <<>>]
Success(slug) == [status |-> 200, error |-> "", slug |-> slug]
\* res.sendStatus(204)
NoContent == [status |-> 204, error |-> "", slug |-> <<>>]

\* A TypeError thrown in the async handler rejects its promise.  What the
\* client then sees depends on the Express build: no response at all, or
\* the default error handler's 500.
CrashResponses == {NoResponse, Fail(500, "Internal Server Error")}

NoBook == [fullBook |-> <<>>, slug |-> <<>>]
EmptyStore == <<>>
Key(prefix, slug) == [prefix |-> prefix, slug |-> slug]
\* a set that keeps the value of a key that already exists
StoreSetIfAbsent(st, key, value) ==
    [k \in DOMAIN st \cup {key} |-> IF k \in DOMAIN st THEN st[k] ELSE value]
\* client.set(key, value)
StoreSet(st, key, value) ==
    [k \in DOMAIN st \cup {key} |-> IF k = key THEN value ELSE st[k]]
\* client.get(key): the value, or null for an absent key
StoreGet(st, key) == IF key \in DOMAIN st THEN Text(st[key]) ELSE Null
\* client.del(key)
StoreDel(st, key) == [k \in DOMAIN st \ {key} |-> st[k]]

NoTarget == <<>>
NoDownload == [status |-> 0, body |-> <<>>, type |-> "", name |-> <<>>]
NoRuns == <<>>
NoFlow == <<>>
\* no call made yet, and one stage making k calls
NoCalls == [overview |-> 0, outline |-> 0, chapter |-> 0, content |-> 0]
Issue(n, stage, k) == [n EXCEPT ![stage] = @ + k]
NoGen == [overview |-> Null, slug |-> <<>>, content |-> Null]

\* chapterCount < 3 || chapterCount > 15
CountRejected(cc) == Lt(cc, MinChapters) \/ Gt(cc, MaxChapters)

\* POST /generate-book-outline: !overview || !chapterCount, where NaN and 0
\* are the falsy numbers
StagedOutlineRejected(ov, cc) == Falsy(ov) \/ cc.nan \/ cc.n = 0

\* generateChapterOutline once callDeepSeek has returned raw:
\* extractJSON(raw) reads raw.length and throws when raw is null
Extracted(r) == [threw |-> FALSE, found |-> r.found, json |-> r.json]
GenerateChapterOutline(raw) ==
    IF raw.isNull THEN [threw |-> TRUE, found |-> FALSE, json |-> JNone]
    ELSE Extracted(ExtractJSON(raw.text))

\* outline.map((ch, i) => generateChapter(overview, ch, i + 1, chapterCount))
StartChapters(entries, cc) ==
    [i \in 1..Len(entries) |->
        [idx |-> i, total |-> cc, meta |-> entries[i], c |-> CallInit]]

\* outline[0].title.split(...) throws unless outline[0].title is a string
TitleUsable(ol) ==
    /\ Len(ol.val) > 0
    /\ Prop(ol.val[1], TitleKey).kind = "str"

BookTitle(ol) == BeforeSep(Prop(ol.val[1], TitleKey).val, TitleSep)

\* the assembled array, joined with "\n"
Section(meta, i, text) ==
    <<"\n---\n\n# Chapter ">> \o NatText(i) \o <<": ">>
    \o Interpolate(Prop(meta, TitleKey)) \o <<"\n\n*">>
    \o Interpolate(Prop(meta, SynopsisKey)) \o <<"*\n\n">> \o text
\* the sections pushed last entry first
RECURSIVE SectionsLastFirst(_, _, _)
SectionsLastFirst(ol, chaptersRaw, i) ==
    IF i > Len(ol.val) THEN <<>>
    ELSE SectionsLastFirst(ol, chaptersRaw, i + 1)
         \o <<"\n">> \o Section(ol.val[i], i, chaptersRaw[i].text)
RECURSIVE Sections(_, _, _)
Sections(ol, chaptersRaw, i) ==
    IF i > Len(ol.val) THEN <<>>
    ELSE <<"\n">> \o Section(ol.val[i], i, chaptersRaw[i].text)
         \o Sections(ol, chaptersRaw, i + 1)
Assemble(ov, ol, chaptersRaw) ==
    <<"# ">>
    \o (IF BookTitle(ol) = <<>>
        THEN <<"Untitled Book">> ELSE BookTitle(ol))
    \o <<"\n\n## Overview\n\n">> \o ov.text \o <<"\n\n">>
    \o Sections(ol, chaptersRaw, 1)

\* a slug made from the whole title of the first entry
BookSlugWholeTitle(ol, keywords) ==
    Slugify(IF BookTitle(ol) = <<>>
            THEN Trim(BeforeSep(keywords.text, <<",">>))
            ELSE Prop(ol.val[1], TitleKey).val)
\* slugify(title || first keyword, { lower: true, strict: true })
BookSlug(ol, keywords) ==
    Slugify(IF BookTitle(ol) = <<>>
            THEN Trim(BeforeSep(keywords.text, <<",">>))
            ELSE BookTitle(ol))

(***************************************************************************)
(* The pieces of GET /download/:filename.                                  *)
(***************************************************************************)
DotMd == <<".", "m", "d">>
DotJson == <<".", "j", "s", "o", "n">>
OutlineSuffix == <<"-", "o", "u", "t", "l", "i", "n", "e">> \o DotJson
OverviewSuffix == <<"-", "o", "v", "e", "r", "v", "i", "e", "w">> \o DotMd

\* text.endsWith(suf) and text.startsWith(pre)
EndsWith(t, suf) ==
    /\ Len(t) >= Len(suf)
    /\ SubSeq(t, Len(t) - Len(suf) + 1, Len(t)) = suf
StartsWith(t, pre) ==
    /\ Len(t) >= Len(pre)
    /\ SubSeq(t, 1, Len(pre)) = pre

\* fn.replace(/\.(md|json)$/, '')
StripExt(fn) ==
    IF EndsWith(fn, DotMd) THEN SubSeq(fn, 1, Len(fn) - Len(DotMd))
    ELSE IF EndsWith(fn, DotJson) THEN SubSeq(fn, 1, Len(fn) - Len(DotJson))
    ELSE fn

\* the three branches on the filename: the key read, the content type and
\* the attachment name
Resolved(prefix, slug, type, suffix) ==
    [key |-> Key(prefix, slug), type |-> type, name |-> slug \o suffix]
Resolve(fn) ==
    IF EndsWith(fn, OutlineSuffix)
    THEN Resolved("book-outline", StripExt(fn), "application/json",
                  OutlineSuffix)
    ELSE IF EndsWith(fn, OverviewSuffix)
    THEN Resolved("book-overview", StripExt(fn), "text/markdown",
                  OverviewSuffix)
    ELSE Resolved("book-full", StripExt(fn), "text/markdown", DotMd)

NotFound ==
    [status |-> 404, body |-> <<"Not found">>, type |-> "text/html",
     name |-> <<>>]
\* res.send(content) without the !content test: a null body is an error
SendContentUnchecked(content, r) ==
    [status |-> IF content.isNull THEN 500 ELSE 200, body |-> content.text,
     type |-> r.type, name |-> r.name]
\* if (!content) 404, else the content with its headers
SendContent(content, r) ==
    IF Falsy(content) THEN NotFound
    ELSE [status |-> 200, body |-> content.text, type |-> r.type,
          name |-> r.name]

(***************************************************************************)
(* The pieces of POST /generate.                                           *)
(***************************************************************************)
TitlePrefix == <<"t", "i", "t", "l", "e", ":">>
DefaultTitle == <<"c", "o", "n", "t", "e", "n", "t">>
LowerText(t) == [i \in 1..Len(t) |-> ToLower(t[i])]

\* overview.split('\n').find(l => l.toLowerCase().startsWith('title:'))
RECURSIVE FindTitleLine(_)
FindTitleLine(t) ==
    LET l == BeforeSep(t, <<"\n">>) IN
    IF StartsWith(LowerText(l), TitlePrefix) THEN [found |-> TRUE, line |-> l]
    ELSE IF Len(l) = Len(t) THEN [found |-> FALSE, line |-> <<>>]
    ELSE FindTitleLine(SubSeq(t, Len(l) + 2, Len(t)))

\* ?.slice(6).trim() || 'content'
TitleOrDefault(f) ==
    IF f.found /\ Trim(SubSeq(f.line, Len(TitlePrefix) + 1, Len(f.line))) # <<>>
    THEN Trim(SubSeq(f.line, Len(TitlePrefix) + 1, Len(f.line)))
    ELSE DefaultTitle
GenSlug(ov) == Slugify(TitleOrDefault(FindTitleLine(ov)))

(***************************************************************************)
(* SpecExtract: Init draws the text, the actions run the scan.             *)
(***************************************************************************)
AllTexts == UNION {[1..n -> Chars] : n \in 0..MaxLen}

\* Longer texts, some with characters outside Chars: the outline reply of
\* the documented scenario, an object with an array member, a literal with
\* an escaped quote and a brace before an array, a span that does not
\* parse before a nested array.
ScenarioPrefix ==
    <<"S", "u", "r", "e", "!", " ", "H", "e", "r", "e", " ", "i", "s", " ",
      "t", "h", "e", " ", "o", "u", "t", "l", "i", "n", "e", ":", " ">>
ScenarioArray ==
    <<"[", "{", QUOTE, "t", "i", "t", "l", "e", QUOTE, ":", QUOTE, "A",
      QUOTE, ",", QUOTE, "s", "y", "n", "o", "p", "s", "i", "s", QUOTE,
      ":", QUOTE, "B", QUOTE, "}", "]">>
ScenarioSuffix ==
    <<" ", "H", "o", "p", "e", " ", "t", "h", "a", "t", " ", "h", "e", "l",
      "p", "s", "!">>
ScenarioB == ScenarioPrefix \o ScenarioArray \o ScenarioSuffix
ObjectWithArray == <<"{", QUOTE, "1", QUOTE, ":", "[", "1", "]", "}">>
EscapedQuoteText == <<QUOTE, BSLASH, QUOTE, "{", QUOTE, "[", "1", "]">>
BadThenNested == <<"{", "1", "}", "[", "[", "1", "]", "]">>
SampleTexts == {ScenarioB, ObjectWithArray, EscapedQuoteText, BadThenNested}

(***************************************************************************)
(* The requests and the endpoint's replies the model draws from.           *)
(***************************************************************************)
JArr(vs) == [kind |-> "arr", val |-> vs]
JObj(ms) == [kind |-> "obj", val |-> ms]
Entry(title, synopsis) ==
    JObj(<<[key |-> TitleKey, val |-> JStr(title)],
           [key |-> SynopsisKey, val |-> JStr(synopsis)]>>)

KeywordInputs == {Null, Text(<<"f", "u", "n", "g", "i", ",", " ", "s", "o", "i", "l">>)}
ChapterInputs ==
    {Null, Text(<<"2">>), Text(<<"3">>), Text(<<"4">>), Text(<<"1", "6">>),
     Text(<<"x">>)}

OverviewReply == <<"O", "v">>
ContentReply == <<"G", "e", "n">>

\* POST /generate: the overview field of the request body
OverviewInputs ==
    {Null, Text(<<"T", "i", "t", "l", "e", ":", " ", "A", "\n", "x">>),
     Text(<<"x">>)}

\* GET /download: the filenames requested, the three links of a slug for
\* the slugs the runs can produce and for one they cannot
SlugA == <<"a">>
SlugAOverview == <<"a", "-", "o", "v", "e", "r", "v", "i", "e", "w">>
SlugZ == <<"z">>
Filenames ==
    {sl \o suf : sl \in {SlugA, SlugAOverview, SlugZ},
                 suf \in {DotMd, OverviewSuffix, OutlineSuffix}}

\* DELETE /redis: a key that was never written
AbsentKey == Key("book-full", SlugZ)
ChapterReply(idx) == <<"C", "h">> \o NatText(idx)

ThreeEntries ==
    JArr(<<Entry(<<"A", " ", ENDASH, " ", "I">>, <<"x">>),
           Entry(<<"B">>, <<"y">>), Entry(<<"C">>, <<"z">>)>>)
OneEntryOverview ==
    JArr(<<Entry(<<"A", " ", "o", "v", "e", "r", "v", "i", "e", "w">>,
                 <<"x">>)>>)
OneEntryEmptyTitle == JArr(<<Entry(<<>>, <<"x">>)>>)
OneEntryA == JArr(<<Entry(<<"A">>, <<"B">>)>>)
\* the outline replies: three entries as raw JSON, one entry inside prose,
\* prose without JSON, an empty array, a bare object, an entry without a
\* title, one entry whose title ends in the word overview, one entry with
\* an empty title
OutlineReplies ==
    {Stringify(ThreeEntries),
     Stringify(OneEntryOverview),
     Stringify(OneEntryEmptyTitle),
     ScenarioB,
     ScenarioPrefix,
     <<"[", "]">>,
     Stringify(Entry(<<"A">>, <<"x">>)),
     Stringify(JArr(<<JObj(<<[key |-> SynopsisKey, val |-> JStr(<<"x">>)]>>)>>))}

\* the contents a 2xx reply can carry at each stage; an empty content and
\* a reply without content both end as null
StageContents(stage) ==
    {Text(<<>>)} \cup
    (IF stage = "overview" THEN {Text(OverviewReply)}
     ELSE IF stage = "content" THEN {Text(ContentReply)}
     ELSE {Text(t) : t \in OutlineReplies})
ChapterContents(idx) == {Text(<<>>), Text(ChapterReply(idx))}

extractVars == <<str, scan>>
callVars == <<call, replies, console>>
serverVars ==
    <<kind, served, before, target, download, gen, settled, issued, runs,
      flow>>
bookVars == <<req, pc, chapterCount, overview, outline, stageCall,
              chapterCalls, book, store, response, serverVars>>
vars == <<str, scan, call, replies, console, req, pc, chapterCount, overview,
          outline, stageCall, chapterCalls, book, store, response, kind,
          served, before, target, download, gen, settled, issued, runs,
      flow>>

\* the /generate-book variables before any request
BookIdle ==
    /\ req = [keywords |-> Null, chapters |-> Null]
    /\ pc = "idle"
    /\ chapterCount = NaN
    /\ overview = Null
    /\ outline = JUndef
    /\ stageCall = CallInit
    /\ chapterCalls = <<>>
    /\ book = NoBook
    /\ store = EmptyStore
    /\ response = NoResponse
    /\ kind = "none" /\ served = 0
    /\ before = EmptyStore
    /\ target = NoTarget
    /\ download = NoDownload
    /\ gen = NoGen
    /\ settled = <<>>
    /\ issued = NoCalls
    /\ runs = NoRuns
    /\ flow = NoFlow

InitExtract ==
    /\ str \in AllTexts \cup SampleTexts
    /\ scan = ScanInit
    /\ call = CallInit /\ replies = <<>> /\ console = <<>>
    /\ BookIdle

ScanChar ==
    /\ ~scan.done
    /\ scan.i < Len(str)
    /\ scan' = LoopBody(str, scan)
    /\ UNCHANGED <<str, callVars, bookVars>>

ScanEnd ==
    /\ ~scan.done
    /\ scan.i >= Len(str)
    /\ scan' = LoopExit(scan)
    /\ UNCHANGED <<str, callVars, bookVars>>

NextExtract == ScanChar \/ ScanEnd

SpecExtract == InitExtract /\ [][NextExtract]_vars

(***************************************************************************)
(* SpecCall: one callDeepSeek call; the endpoint chooses each attempt's    *)
(* outcome.                                                                *)
(***************************************************************************)
InitCall ==
    /\ call = CallInit /\ replies = <<>> /\ console = <<>>
    /\ str = <<>> /\ scan = ScanInit
    /\ BookIdle

\* axios.post rejects, or the reply has no choices: the catch block runs
AttemptFails ==
    /\ call.pc = "request"
    /\ \E cause \in Causes :
        /\ replies' = Append(replies, [ok |-> FALSE, cause |-> cause,
                                       content |-> Null])
        /\ console' = Append(console, <<call.a, cause>>)
    /\ call' = OnError(call)
    /\ UNCHANGED <<extractVars, bookVars>>

\* axios.post resolves with a 2xx reply
AttemptSucceeds ==
    /\ call.pc = "request"
    /\ \E content \in Contents :
        /\ replies' = Append(replies, [ok |-> TRUE, cause |-> "none",
                                       content |-> content])
        /\ call' = OnResponse(call, content)
    /\ UNCHANGED <<console, extractVars, bookVars>>

\* the backoff timer fires
TimerFires ==
    /\ call.pc = "sleep"
    /\ call' = OnTimer(call)
    /\ UNCHANGED <<replies, console, extractVars, bookVars>>

NextCall == AttemptFails \/ AttemptSucceeds \/ TimerFires

SpecCall == InitCall /\ [][NextCall]_vars

(***************************************************************************)
(* Spec: the server with an empty store, serving up to MaxRequests         *)
(* requests one after the other.  Each action is the code that runs        *)
(* between two awaits; the remote calls move by the callDeepSeek steps     *)
(* above.  The console log is not followed here.                           *)
(***************************************************************************)
MaxRequests == 2

Init ==
    /\ BookIdle
    /\ str = <<>> /\ scan = ScanInit
    /\ call = CallInit /\ replies = <<>> /\ console = <<>>

\* what the steps of a request leave alone once it has been accepted
frozen == <<extractVars, callVars, serverVars>>
\* the same without the count of calls, and without the order of return
frozenButIssued ==
    <<extractVars, callVars, kind, served, before, target, download, gen,
      settled, runs,
      flow>>
frozenButSettled ==
    <<extractVars, callVars, kind, served, before, target, download, gen,
      issued, runs,
      flow>>

Ended == pc \in {"idle", "done", "crashed"}

\* a request arrives once the one before it has ended: the handler starts
\* with fresh locals
Arrives(k) ==
    /\ Ended
    /\ served < MaxRequests
    /\ kind' = k
    /\ served' = served + 1
    /\ before' = store
    /\ chapterCount' = NaN
    /\ overview' = Null
    /\ outline' = JUndef
    /\ stageCall' = CallInit
    /\ chapterCalls' = <<>>
    /\ book' = NoBook
    /\ response' = NoResponse
    /\ download' = NoDownload
    /\ settled' = <<>>
    /\ issued' = NoCalls
    /\ UNCHANGED <<store, extractVars, callVars, runs,
      flow>>

\* POST /generate-book arrives
AcceptBook ==
    /\ Arrives("book")
    /\ req' \in [keywords : KeywordInputs, chapters : ChapterInputs]
    /\ pc' = "start"
    /\ target' = NoTarget
    /\ gen' = NoGen

\* POST /generate arrives
AcceptGenerate ==
    /\ Arrives("generate")
    /\ \E ov \in OverviewInputs : gen' = [NoGen EXCEPT !.overview = ov]
    /\ pc' = "gstart"
    /\ target' = NoTarget
    /\ req' = [keywords |-> Null, chapters |-> Null]

\* GET /download/:filename arrives
AcceptDownload ==
    /\ Arrives("download")
    /\ target' \in Filenames
    /\ pc' = "get"
    /\ gen' = NoGen
    /\ req' = [keywords |-> Null, chapters |-> Null]

\* DELETE /redis/:key arrives
AcceptDelete ==
    /\ Arrives("delete")
    /\ target' \in DOMAIN store \cup {AbsentKey}
    /\ pc' = "del"
    /\ gen' = NoGen
    /\ req' = [keywords |-> Null, chapters |-> Null]

\* chaptersRaw of an /assemble-book body: absent, or an array of texts and
\* nulls
NoChapters == [present |-> FALSE, items |-> <<>>]
ChaptersBody(items) == [present |-> TRUE, items |-> items]
AssembleBodies ==
    [keywords : KeywordInputs \ {Null}, chapters : {Null},
     overview : {Null, Text(OverviewReply)},
     outline : {JUndef, JArr(<<>>), OneEntryA},
     chaptersRaw : {NoChapters, ChaptersBody(<<>>), ChaptersBody(<<Null>>),
                    ChaptersBody(<<Text(ChapterReply(1))>>)}]

\* POST /assemble-book arrives
AcceptAssemble ==
    /\ Arrives("assemble")
    /\ req' \in AssembleBodies
    /\ pc' = "astart"
    /\ target' = NoTarget
    /\ gen' = NoGen

\* the awaits at which stageCall is in flight
StagePcs == {"overview", "outline", "content"}

\* validation, then the overview call is started
Receive ==
    /\ pc = "start"
    /\ IF Falsy(req.keywords) \/ Falsy(req.chapters)
       THEN /\ response' = Fail(400, "keywords and chapters required")
            /\ pc' = "done"
            /\ UNCHANGED <<chapterCount, stageCall, issued>>
       ELSE LET cc == ParseInt(req.chapters.text) IN
            /\ chapterCount' = cc
            /\ IF CountRejected(cc)
               THEN /\ response' = Fail(400, "chapters must be 3-15")
                    /\ pc' = "done"
                    /\ UNCHANGED <<stageCall, issued>>
               ELSE /\ pc' = "overview"
                    /\ stageCall' = CallInit
                    /\ issued' = Issue(issued, "overview", 1)
                    /\ UNCHANGED response
    /\ UNCHANGED <<req, overview, outline, chapterCalls, book, store,
                   frozenButIssued>>

\* the overview or outline call: an attempt fails
StageAttemptFails ==
    /\ pc \in StagePcs
    /\ stageCall.pc = "request"
    /\ stageCall' = OnError(stageCall)
    /\ UNCHANGED <<req, pc, chapterCount, overview, outline, chapterCalls,
                   book, store, response, frozen>>

\* the overview or outline call: an attempt gets a 2xx reply
StageAttemptSucceeds ==
    /\ pc \in StagePcs
    /\ stageCall.pc = "request"
    /\ \E content \in StageContents(pc) :
           stageCall' = OnResponse(stageCall, content)
    /\ UNCHANGED <<req, pc, chapterCount, overview, outline, chapterCalls,
                   book, store, response, frozen>>

\* the overview or outline call: its backoff timer fires
StageTimerFires ==
    /\ pc \in StagePcs
    /\ stageCall.pc = "sleep"
    /\ stageCall' = OnTimer(stageCall)
    /\ UNCHANGED <<req, pc, chapterCount, overview, outline, chapterCalls,
                   book, store, response, frozen>>

\* generateBookOverview has returned and the outline call is made whatever
\* it returned
AfterOverviewUnchecked ==
    /\ pc = "overview"
    /\ stageCall.pc = "returned"
    /\ overview' = stageCall.ret
    /\ pc' = "outline"
    /\ stageCall' = CallInit
    /\ issued' = Issue(issued, "outline", 1)
    /\ UNCHANGED <<req, chapterCount, outline, chapterCalls, book, store,
                   response, frozenButIssued>>

\* generateBookOverview has returned
AfterOverview ==
    /\ pc = "overview"
    /\ stageCall.pc = "returned"
    /\ overview' = stageCall.ret
    /\ IF Falsy(stageCall.ret)
       THEN /\ response' = Fail(503, "Overview generation failed")
            /\ pc' = "done"
            /\ UNCHANGED <<stageCall, issued>>
       ELSE /\ pc' = "outline"
            /\ stageCall' = CallInit
            /\ issued' = Issue(issued, "outline", 1)
            /\ UNCHANGED response
    /\ UNCHANGED <<req, chapterCount, outline, chapterCalls, book, store,
                   frozenButIssued>>

\* the outline call has returned and is made again when no JSON came out
\* of its reply
AfterOutlineReissue ==
    /\ pc = "outline"
    /\ stageCall.pc = "returned"
    /\ \E g \in {GenerateChapterOutline(stageCall.ret)} :
       IF g.threw \/ ~g.found
       THEN /\ stageCall' = CallInit
            /\ issued' = Issue(issued, "outline", 1)
            /\ UNCHANGED <<pc, response, outline, chapterCalls>>
       ELSE IF g.json.kind # "arr"
       THEN /\ outline' = g.json
            /\ pc' = "crashed"
            /\ response' \in CrashResponses
            /\ UNCHANGED <<chapterCalls, stageCall, issued>>
       ELSE /\ outline' = g.json
            /\ chapterCalls' = StartChapters(g.json.val, chapterCount)
            /\ stageCall' = CallInit
            /\ issued' = Issue(issued, "chapter", Len(g.json.val))
            /\ pc' = "chapters"
            /\ UNCHANGED response
    /\ UNCHANGED <<req, chapterCount, overview, book, store,
                   frozenButIssued>>

\* the outline call has returned: generateChapterOutline extracts the JSON,
\* and the handler fans the chapter calls out
AfterOutline ==
    /\ pc = "outline"
    /\ stageCall.pc = "returned"
    /\ \E g \in {GenerateChapterOutline(stageCall.ret)} :
       IF g.threw
       THEN /\ pc' = "crashed"
            /\ response' \in CrashResponses
            /\ UNCHANGED <<outline, chapterCalls, stageCall, issued>>
       ELSE IF ~g.found
       THEN /\ pc' = "done"
            /\ response' = Fail(503, "Outline generation failed")
            /\ UNCHANGED <<outline, chapterCalls, stageCall, issued>>
       ELSE IF g.json.kind # "arr"
       THEN /\ outline' = g.json
            /\ pc' = "crashed"
            /\ response' \in CrashResponses
            /\ UNCHANGED <<chapterCalls, stageCall, issued>>
       ELSE /\ outline' = g.json
            /\ chapterCalls' = StartChapters(g.json.val, chapterCount)
            /\ stageCall' = CallInit
            /\ issued' = Issue(issued, "chapter", Len(g.json.val))
            /\ pc' = "chapters"
            /\ UNCHANGED response
    /\ UNCHANGED <<req, chapterCount, overview, book, store,
                   frozenButIssued>>

\* a synchronous sleep: no call runs while any call of the run is sleeping
RunnableBlocking(calls, i) ==
    /\ calls[i].c.pc = "request"
    /\ \A j \in 1..Len(calls) : calls[j].c.pc # "sleep"
\* every generateChapter call is an async invocation of its own: it runs
\* whenever its own axios.post await settles
Runnable(calls, i) == calls[i].c.pc = "request"

\* the calls that have returned, in the order they returned
Settle(order, c, i) == IF c.pc = "returned" THEN Append(order, i) ELSE order

\* chapter call i: an attempt fails
ChapterFailsAt(i) ==
    /\ pc = "chapters"
    /\ Runnable(chapterCalls, i)
    /\ chapterCalls' =
           [chapterCalls EXCEPT ![i].c = OnError(chapterCalls[i].c)]
    /\ settled' = Settle(settled, OnError(chapterCalls[i].c), i)
    /\ UNCHANGED <<req, pc, chapterCount, overview, outline, stageCall, book,
                   store, response, frozenButSettled>>

\* chapter call i: an attempt gets a 2xx reply
ChapterSucceedsAt(i) ==
    /\ pc = "chapters"
    /\ Runnable(chapterCalls, i)
    /\ \E content \in ChapterContents(chapterCalls[i].idx) :
           chapterCalls' =
               [chapterCalls EXCEPT
                   ![i].c = OnResponse(chapterCalls[i].c, content)]
    /\ settled' = Append(settled, i)
    /\ UNCHANGED <<req, pc, chapterCount, overview, outline, stageCall, book,
                   store, response, frozenButSettled>>

\* chapter call i: its backoff timer fires
ChapterTimerAt(i) ==
    /\ pc = "chapters"
    /\ chapterCalls[i].c.pc = "sleep"
    /\ chapterCalls' =
           [chapterCalls EXCEPT ![i].c = OnTimer(chapterCalls[i].c)]
    /\ UNCHANGED <<req, pc, chapterCount, overview, outline, stageCall, book,
                   store, response, frozen>>

\* a chapter call: an attempt fails
ChapterAttemptFails == \E i \in 1..Len(chapterCalls) : ChapterFailsAt(i)

\* a chapter call: an attempt gets a 2xx reply
ChapterAttemptSucceeds ==
    \E i \in 1..Len(chapterCalls) : ChapterSucceedsAt(i)

\* a chapter call: its backoff timer fires
ChapterTimerFires == \E i \in 1..Len(chapterCalls) : ChapterTimerAt(i)

\* the results in the order the calls returned
ChaptersInSettledOrder ==
    [i \in 1..Len(chapterCalls) |-> chapterCalls[settled[i]].c.ret]
ChaptersRaw == [i \in 1..Len(chapterCalls) |-> chapterCalls[i].c.ret]

\* a Promise.all that settled as soon as one call had returned null
FirstFailureOrAll(calls) ==
    \/ \A i \in 1..Len(calls) : calls[i].c.pc = "returned"
    \/ \E i \in 1..Len(calls) :
           calls[i].c.pc = "returned" /\ Falsy(calls[i].c.ret)
\* Promise.all over calls that never reject: resolved once all have returned
AllSettled(calls) == \A i \in 1..Len(calls) : calls[i].c.pc = "returned"

\* Promise.all has resolved: the failure check, the assembly, the slug and
\* the first client.set
AfterChapters ==
    /\ pc = "chapters"
    /\ AllSettled(chapterCalls)
    /\ IF \E i \in 1..Len(chapterCalls) : Falsy(ChaptersRaw[i])
       THEN /\ response' = Fail(503, "One or more chapters failed")
            /\ pc' = "done"
            /\ UNCHANGED book
       ELSE IF ~TitleUsable(outline)
       THEN /\ pc' = "crashed"
            /\ response' \in CrashResponses
            /\ UNCHANGED book
       ELSE /\ book' = [fullBook |-> Assemble(overview, outline, ChaptersRaw),
                        slug |-> BookSlug(outline, req.keywords)]
            /\ pc' = "set1"
            /\ UNCHANGED response
    /\ UNCHANGED <<req, chapterCount, overview, outline, stageCall,
                   chapterCalls, store, frozen>>

\* the full document written first
SetFullFirst ==
    /\ pc = "set1"
    /\ store' = StoreSet(store, Key("book-full", book.slug), book.fullBook)
    /\ pc' = "set2"
    /\ UNCHANGED <<req, chapterCount, overview, outline, stageCall,
                   chapterCalls, book, response, frozen>>

\* await client.set(`book-overview:${slug}`, overview)
SetOverview ==
    /\ pc = "set1"
    /\ store' = StoreSet(store, Key("book-overview", book.slug), overview.text)
    /\ pc' = "set2"
    /\ UNCHANGED <<req, chapterCount, overview, outline, stageCall,
                   chapterCalls, book, response, frozen>>

\* await client.set(`book-outline:${slug}`, JSON.stringify(outline))
SetOutline ==
    /\ pc = "set2"
    /\ store' = StoreSet(store, Key("book-outline", book.slug),
                         Stringify(outline))
    /\ pc' = "set3"
    /\ UNCHANGED <<req, chapterCount, overview, outline, stageCall,
                   chapterCalls, book, response, frozen>>

\* await client.set(`book-full:${slug}`, fullBook)
SetFull ==
    /\ pc = "set3"
    /\ store' = StoreSet(store, Key("book-full", book.slug), book.fullBook)
    /\ pc' = "respond"
    /\ UNCHANGED <<req, chapterCount, overview, outline, stageCall,
                   chapterCalls, book, response, frozen>>

\* res.json({ slug })
RespondSlug ==
    /\ pc = "respond"
    /\ response' = Success(book.slug)
    /\ pc' = "done"
    /\ UNCHANGED <<req, chapterCount, overview, outline, stageCall,
                   chapterCalls, book, store, frozen>>

\* !overview || !outline || !chaptersRaw: an array, even an empty one, is
\* truthy
AssembleRejected(b) ==
    Falsy(b.overview) \/ b.outline.kind = "undef" \/ ~b.chaptersRaw.present
\* `${chaptersRaw[i]}` for a text, a null and a missing element
RawText(items, i) ==
    IF i > Len(items) THEN Interpolate(JUndef)
    ELSE IF items[i].isNull THEN <<"n", "u", "l", "l">>
    ELSE items[i].text
BodyChapters(items, ol) == [i \in 1..Len(ol.val) |-> Text(RawText(items, i))]

\* POST /assemble-book: validation, the assembly, the slug and the first
\* client.set; the writes and the response are those of /generate-book
AssembleReceive ==
    /\ pc = "astart"
    /\ IF AssembleRejected(req)
       THEN /\ response' = Fail(400, "missing required fields")
            /\ pc' = "done"
            /\ UNCHANGED <<overview, outline, book>>
       ELSE IF ~TitleUsable(req.outline)
       THEN /\ pc' = "crashed"
            /\ response' \in CrashResponses
            /\ UNCHANGED <<overview, outline, book>>
       ELSE /\ overview' = req.overview
            /\ outline' = req.outline
            /\ book' = [fullBook |->
                            Assemble(req.overview, req.outline,
                                     BodyChapters(req.chaptersRaw.items,
                                                  req.outline)),
                        slug |-> BookSlug(req.outline, req.keywords)]
            /\ pc' = "set1"
            /\ UNCHANGED response
    /\ UNCHANGED <<req, chapterCount, stageCall, chapterCalls, store, frozen>>

\* POST /generate: validation, the slug, then generateContent is called
GenReceive ==
    /\ pc = "gstart"
    /\ IF Falsy(gen.overview)
       THEN /\ response' = Fail(400, "Overview required.")
            /\ pc' = "done"
            /\ UNCHANGED <<gen, stageCall, issued>>
       ELSE /\ gen' = [gen EXCEPT !.slug = GenSlug(gen.overview.text)]
            /\ stageCall' = CallInit
            /\ issued' = Issue(issued, "content", 1)
            /\ pc' = "content"
            /\ UNCHANGED response
    /\ UNCHANGED <<req, chapterCount, overview, outline, chapterCalls, book,
                   store, extractVars, callVars, kind, served, before, target,
                   download, settled, runs,
      flow>>

\* generateContent has returned, with the overview stored before the
\* content is looked at
AfterContentEager ==
    /\ pc = "content"
    /\ stageCall.pc = "returned"
    /\ gen' = [gen EXCEPT !.content = stageCall.ret]
    /\ store' = StoreSet(store, Key("overview", gen.slug), gen.overview.text)
    /\ IF Falsy(stageCall.ret)
       THEN /\ response' = Fail(503, "Generation failed.")
            /\ pc' = "done"
       ELSE /\ pc' = "gset2"
            /\ UNCHANGED response
    /\ UNCHANGED <<req, chapterCount, overview, outline, stageCall,
                   chapterCalls, book, extractVars, callVars, kind, served,
                   before, target, download, settled, issued, runs,
      flow>>

\* generateContent has returned: the 503, or the first client.set is
\* issued
AfterContent ==
    /\ pc = "content"
    /\ stageCall.pc = "returned"
    /\ gen' = [gen EXCEPT !.content = stageCall.ret]
    /\ IF Falsy(stageCall.ret)
       THEN /\ response' = Fail(503, "Generation failed.")
            /\ pc' = "done"
       ELSE /\ pc' = "gset1"
            /\ UNCHANGED response
    /\ UNCHANGED <<req, chapterCount, overview, outline, stageCall,
                   chapterCalls, book, store, extractVars, callVars, kind,
                   served, before, target, download, settled, issued,
                   runs,
      flow>>

\* await client.set(`overview:${slug}`, overview)
GenSetOverview ==
    /\ pc = "gset1"
    /\ store' = StoreSet(store, Key("overview", gen.slug), gen.overview.text)
    /\ pc' = "gset2"
    /\ UNCHANGED <<req, chapterCount, overview, outline, stageCall,
                   chapterCalls, book, response, frozen>>

\* await client.set(`content:${slug}`, content)
GenSetContent ==
    /\ pc = "gset2"
    /\ store' = StoreSet(store, Key("content", gen.slug), gen.content.text)
    /\ pc' = "grespond"
    /\ UNCHANGED <<req, chapterCount, overview, outline, stageCall,
                   chapterCalls, book, response, frozen>>

\* res.json({ slug })
GenRespond ==
    /\ pc = "grespond"
    /\ response' = Success(gen.slug)
    /\ pc' = "done"
    /\ UNCHANGED <<req, chapterCount, overview, outline, stageCall,
                   chapterCalls, book, store, frozen>>

\* GET /download/:filename: the key is resolved from the filename, read,
\* and the content or the 404 is sent
Download ==
    /\ pc = "get"
    /\ download' = SendContent(StoreGet(store, Resolve(target).key),
                               Resolve(target))
    /\ pc' = "done"
    /\ UNCHANGED <<req, chapterCount, overview, outline, stageCall,
                   chapterCalls, book, store, response, extractVars,
                   callVars, kind, served, before, target, gen, settled,
                   issued, runs,
      flow>>

\* DELETE /redis/:key: client.del, then 204
Delete ==
    /\ pc = "del"
    /\ store' = StoreDel(store, target)
    /\ response' = NoContent
    /\ pc' = "done"
    /\ UNCHANGED <<req, chapterCount, overview, outline, stageCall,
                   chapterCalls, book, frozen>>

Next ==
    \/ AcceptBook \/ AcceptGenerate \/ AcceptDownload \/ AcceptDelete
    \/ AcceptAssemble \/ AssembleReceive
    \/ Receive
    \/ StageAttemptFails \/ StageAttemptSucceeds \/ StageTimerFires
    \/ AfterOverview \/ AfterOutline
    \/ ChapterAttemptFails \/ ChapterAttemptSucceeds \/ ChapterTimerFires
    \/ AfterChapters
    \/ SetOverview \/ SetOutline \/ SetFull \/ RespondSlug
    \/ GenReceive \/ AfterContent
    \/ GenSetOverview \/ GenSetContent \/ GenRespond
    \/ Download \/ Delete

Spec == Init /\ [][Next]_vars

(***************************************************************************)
(* SpecPersist: two POST /generate-book handlers that have both assembled  *)
(* their book and now run their persist stage at once.  Each await         *)
(* client.set is a point where the other handler may run.                  *)
(***************************************************************************)
RunIds == {1, 2}
RunOutlines == {ThreeEntries, OneEntryA, OneEntryOverview}
RunOverviews == {OverviewReply, <<"O", "w">>}
RunKeywords == Text(<<"f", "u", "n", "g", "i", ",", " ", "s", "o", "i", "l">>)
RunChapters(ol) == [i \in 1..Len(ol.val) |-> Text(ChapterReply(i))]
\* the locals of a handler after the assembly and the slug
AssembledRun(ov, ol) ==
    [pc |-> "set1", overview |-> ov, outline |-> ol,
     fullBook |-> Assemble(Text(ov), ol, RunChapters(ol)),
     slug |-> BookSlug(ol, RunKeywords), response |-> NoResponse]

InitPersist ==
    /\ runs \in [RunIds -> {AssembledRun(ov, ol) :
                              ov \in RunOverviews, ol \in RunOutlines}]
    /\ store = EmptyStore
    /\ req = [keywords |-> Null, chapters |-> Null]
    /\ pc = "idle"
    /\ chapterCount = NaN
    /\ overview = Null
    /\ outline = JUndef
    /\ stageCall = CallInit
    /\ chapterCalls = <<>>
    /\ book = NoBook
    /\ response = NoResponse
    /\ kind = "none" /\ served = 0
    /\ before = EmptyStore
    /\ target = NoTarget
    /\ download = NoDownload
    /\ gen = NoGen
    /\ settled = <<>>
    /\ issued = NoCalls
    /\ flow = NoFlow
    /\ str = <<>> /\ scan = ScanInit
    /\ call = CallInit /\ replies = <<>> /\ console = <<>>

persistRest ==
    <<extractVars, callVars, req, pc, chapterCount, overview, outline,
      stageCall, chapterCalls, book, response, kind, served, before, target,
      download, gen, settled, issued, flow>>

\* handler r: await client.set(`book-overview:${slug}`, overview)
PersistOverview(r) ==
    /\ runs[r].pc = "set1"
    /\ store' = StoreSet(store, Key("book-overview", runs[r].slug),
                         runs[r].overview)
    /\ runs' = [runs EXCEPT ![r].pc = "set2"]
    /\ UNCHANGED persistRest

\* handler r: await client.set(`book-outline:${slug}`,
\* JSON.stringify(outline))
PersistOutline(r) ==
    /\ runs[r].pc = "set2"
    /\ store' = StoreSet(store, Key("book-outline", runs[r].slug),
                         Stringify(runs[r].outline))
    /\ runs' = [runs EXCEPT ![r].pc = "set3"]
    /\ UNCHANGED persistRest

\* handler r: await client.set(`book-full:${slug}`, fullBook)
PersistFull(r) ==
    /\ runs[r].pc = "set3"
    /\ store' = StoreSet(store, Key("book-full", runs[r].slug),
                         runs[r].fullBook)
    /\ runs' = [runs EXCEPT ![r].pc = "respond"]
    /\ UNCHANGED persistRest

\* handler r: res.json({ slug })
PersistRespond(r) ==
    /\ runs[r].pc = "respond"
    /\ runs' = [runs EXCEPT ![r].pc = "done",
                            ![r].response = Success(runs[r].slug)]
    /\ UNCHANGED <<store, persistRest>>

PersistOverviewStep == \E r \in RunIds : PersistOverview(r)
PersistOutlineStep == \E r \in RunIds : PersistOutline(r)
PersistFullStep == \E r \in RunIds : PersistFull(r)
PersistRespondStep == \E r \in RunIds : PersistRespond(r)

NextPersist ==
    \/ PersistOverviewStep
    \/ PersistOutlineStep
    \/ PersistFullStep
    \/ PersistRespondStep

SpecPersist == InitPersist /\ [][NextPersist]_vars

(***************************************************************************)
(* The staged flow.  The submit handler of the keyword page sends one      *)
(* request after the other to the staged routes and awaits each response;  *)
(* every request is served by its route's handler, whose callDeepSeek      *)
(* call returns a text or null.  sent lists the requests in the order      *)
(* they were sent, outcomes what became of each.                           *)
(***************************************************************************)
\* a response as the page reads it: res.ok and the body's fields
NoRes == [ok |-> FALSE, overview |-> Null, outline |-> JUndef,
          content |-> Null, slug |-> <<>>]
IdleFlow ==
    [pc |-> "idle", payload |-> [keywords |-> Null, chapters |-> Null],
     chapterCount |-> NaN, bookOverview |-> Text(<<>>),
     chapterOutline |-> JArr(<<>>), generatedChapters |-> <<>>, i |-> 0,
     sent |-> <<>>, outcomes |-> <<>>, res |-> NoRes, slug |-> <<>>]

\* await fetch(route, ...): the request leaves
Send(f, route, idx) ==
    [f EXCEPT !.pc = route,
              !.sent = Append(@, [route |-> route, idx |-> idx])]
\* the handler's response reaches the page
Answer(f, r) ==
    [f EXCEPT !.res = r,
              !.outcomes = Append(@, IF r.ok THEN "ok" ELSE "failed")]
\* an exception in an async handler: a 500, or a request left unanswered
Crashed(f) ==
    {Answer(f, NoRes),
     [f EXCEPT !.pc = "hung", !.outcomes = Append(@, "failed")]}
\* throw new Error(...): the catch block ends the flow
Throw(f) == [f EXCEPT !.pc = "error"]
Awaiting(route) ==
    flow # NoFlow /\ flow.pc = route /\ Len(flow.outcomes) < Len(flow.sent)
Answered(route) ==
    flow # NoFlow /\ flow.pc = route /\ Len(flow.outcomes) = Len(flow.sent)

\* what callDeepSeek can return at a stage: content || null
Returns(contents) == {OrNull(c) : c \in contents}
\* a number through JSON.stringify and parseInt(chapters, 10): NaN is sent
\* as null
WireCount(cc) == IF cc.nan THEN NaN ELSE ParseInt(NatText(cc.n))
\* a value through res.json and response.json()
Wire(v) == JSONParse(Stringify(v)).val
\* !v for a value of a JSON body
JFalsy(v) ==
    \/ v.kind \in {"undef", "none"}
    \/ v.kind = "num" /\ v.val = 0
    \/ v.kind = "str" /\ v.val = <<>>
    \/ v.kind = "lit" /\ v.val # <<"t", "r", "u", "e">>
\* chapterOutline.length as the loop condition sees it: i < undefined is
\* false for a value that is no array
LengthOf(v) == IF v.kind = "arr" THEN Len(v.val) ELSE 0
\* the for loop's test, then the next fetch
LoopOrAssemble(f) ==
    IF f.i < LengthOf(f.chapterOutline)
    THEN Send(f, "chapter", f.i + 1)
    ELSE Send(f, "assemble", 0)

stagedRest ==
    <<extractVars, callVars, req, pc, chapterCount, overview, outline,
      stageCall, chapterCalls, book, response, kind, served, before, target,
      download, gen, settled, issued, runs>>

InitStaged ==
    /\ flow = IdleFlow
    /\ store = EmptyStore
    /\ runs = NoRuns
    /\ req = [keywords |-> Null, chapters |-> Null]
    /\ pc = "idle"
    /\ chapterCount = NaN
    /\ overview = Null
    /\ outline = JUndef
    /\ stageCall = CallInit
    /\ chapterCalls = <<>>
    /\ book = NoBook
    /\ response = NoResponse
    /\ kind = "none" /\ served = 0
    /\ before = EmptyStore
    /\ target = NoTarget
    /\ download = NoDownload
    /\ gen = NoGen
    /\ settled = <<>>
    /\ issued = NoCalls
    /\ str = <<>> /\ scan = ScanInit
    /\ call = CallInit /\ replies = <<>> /\ console = <<>>

\* the form is submitted: the payload is read and the overview is requested
SubmitForm ==
    /\ flow.pc = "idle"
    /\ \E k \in KeywordInputs, c \in ChapterInputs :
         flow' = Send([IdleFlow EXCEPT
                          !.payload = [keywords |-> k, chapters |-> c],
                          !.chapterCount =
                              IF Falsy(c) THEN NaN ELSE ParseInt(c.text)],
                      "overview", 0)
    /\ UNCHANGED <<store, stagedRest>>

\* POST /generate-book-overview
ServeOverview ==
    /\ Awaiting("overview")
    /\ IF Falsy(flow.payload.keywords)
       THEN flow' = Answer(flow, NoRes)
       ELSE \E r \in Returns(StageContents("overview")) :
              flow' = Answer(flow,
                             IF Falsy(r) THEN NoRes
                             ELSE [NoRes EXCEPT !.ok = TRUE, !.overview = r])
    /\ UNCHANGED <<store, stagedRest>>

\* if (!overviewRes.ok) throw; else the outline is requested
OnOverview ==
    /\ Answered("overview")
    /\ flow' = IF ~flow.res.ok THEN Throw(flow)
               ELSE Send([flow EXCEPT !.bookOverview = flow.res.overview],
                         "outline", 0)
    /\ UNCHANGED <<store, stagedRest>>

\* POST /generate-book-outline
ServeOutline ==
    /\ Awaiting("outline")
    /\ IF StagedOutlineRejected(flow.bookOverview,
                                WireCount(flow.chapterCount))
       THEN flow' = Answer(flow, NoRes)
       ELSE \E raw \in Returns(StageContents("outline")) :
            \E g \in {GenerateChapterOutline(raw)} :
              IF g.threw THEN flow' \in Crashed(flow)
              ELSE IF ~g.found THEN flow' = Answer(flow, NoRes)
              ELSE flow' = Answer(flow, [NoRes EXCEPT !.ok = TRUE,
                                                      !.outline = Wire(g.json)])
    /\ UNCHANGED <<store, stagedRest>>

\* if (!outlineRes.ok) throw; else the loop starts
OnOutline ==
    /\ Answered("outline")
    /\ flow' = IF ~flow.res.ok THEN Throw(flow)
               ELSE LoopOrAssemble([flow EXCEPT
                                       !.chapterOutline = flow.res.outline,
                                       !.i = 0])
    /\ UNCHANGED <<store, stagedRest>>

\* !overview || !chapterMeta || !idx || !total
ChapterRejected(ov, meta, idx, total) ==
    Falsy(ov) \/ JFalsy(meta) \/ idx = 0 \/ total.nan \/ total.n = 0

\* POST /generate-chapter
ServeChapter ==
    /\ Awaiting("chapter")
    /\ IF ChapterRejected(flow.bookOverview,
                          flow.chapterOutline.val[flow.i + 1],
                          flow.i + 1, flow.chapterCount)
       THEN flow' = Answer(flow, NoRes)
       ELSE \E r \in Returns(ChapterContents(flow.i + 1)) :
              flow' = Answer(flow,
                             IF Falsy(r) THEN NoRes
                             ELSE [NoRes EXCEPT !.ok = TRUE, !.content = r])
    /\ UNCHANGED <<store, stagedRest>>

\* a loop body that does not test chapterRes.ok
OnChapterUnchecked ==
    /\ Answered("chapter")
    /\ flow' = LoopOrAssemble([flow EXCEPT
                   !.generatedChapters = Append(@, flow.res.content),
                   !.i = @ + 1])
    /\ UNCHANGED <<store, stagedRest>>

\* if (!chapterRes.ok) throw; else the content is pushed and the loop goes on
OnChapter ==
    /\ Answered("chapter")
    /\ flow' = IF ~flow.res.ok THEN Throw(flow)
               ELSE LoopOrAssemble([flow EXCEPT
                        !.generatedChapters = Append(@, flow.res.content),
                        !.i = @ + 1])
    /\ UNCHANGED <<store, stagedRest>>

\* the body of the /assemble-book request
AssembleBody(f) ==
    [keywords |-> f.payload.keywords, chapters |-> Null,
     overview |-> f.bookOverview, outline |-> f.chapterOutline,
     chaptersRaw |-> ChaptersBody(f.generatedChapters)]

\* POST /assemble-book: validation, the assembly, the three client.set and
\* the response
ServeAssemble ==
    /\ Awaiting("assemble")
    /\ \E b \in {AssembleBody(flow)} :
         IF AssembleRejected(b)
         THEN flow' = Answer(flow, NoRes) /\ UNCHANGED store
         ELSE IF b.outline.kind # "arr" \/ ~TitleUsable(b.outline)
         THEN flow' \in Crashed(flow) /\ UNCHANGED store
         ELSE \E sl \in {BookSlug(b.outline, b.keywords)} :
              /\ store' =
                   StoreSet(
                     StoreSet(
                       StoreSet(store, Key("book-overview", sl),
                                b.overview.text),
                       Key("book-outline", sl), Stringify(b.outline)),
                     Key("book-full", sl),
                     Assemble(b.overview, b.outline,
                              BodyChapters(b.chaptersRaw.items, b.outline)))
              /\ flow' = Answer(flow, [NoRes EXCEPT !.ok = TRUE, !.slug = sl])
    /\ UNCHANGED stagedRest

\* if (!assembleRes.ok) throw; else the download links are shown
OnAssemble ==
    /\ Answered("assemble")
    /\ flow' = IF ~flow.res.ok THEN Throw(flow)
               ELSE [flow EXCEPT !.pc = "done", !.slug = flow.res.slug]
    /\ UNCHANGED <<store, stagedRest>>

NextStaged ==
    \/ SubmitForm
    \/ ServeOverview \/ OnOverview
    \/ ServeOutline \/ OnOutline
    \/ ServeChapter \/ OnChapter
    \/ ServeAssemble \/ OnAssemble

SpecStaged == InitStaged /\ [][NextStaged]_vars

(***************************************************************************)
(* Reference notions the extractor's properties are stated against.  They  *)
(* are defined on the text alone, not through the scan.                    *)
(***************************************************************************)
RECURSIVE BackslashRun(_, _)
BackslashRun(t, j) ==
    IF j >= 1 /\ t[j] = BSLASH THEN 1 + BackslashRun(t, j - 1) ELSE 0

RECURSIVE InLit(_, _)
RECURSIVE Escaped(_, _)
\* position k (1-based) lies inside a double-quoted literal: an odd number
\* of unescaped quotes precede it
InLit(t, k) ==
    Cardinality({j \in 1..(k - 1) : t[j] = QUOTE /\ ~Escaped(t, j)}) % 2 = 1
\* a character of a literal preceded by an odd run of backslashes
Escaped(t, j) == InLit(t, j) /\ BackslashRun(t, j - 1) % 2 = 1

\* nesting depth after the first k characters, every brace and bracket
\* outside a literal counted alike, a closer at depth 0 ignored
RECURSIVE RefDepths(_, _)
RefDepths(t, k) ==
    IF k = 0 THEN <<>>
    ELSE LET prev == RefDepths(t, k - 1)
             d == IF k = 1 THEN 0 ELSE prev[k - 1]
             c == t[k]
         IN  Append(prev,
                 IF InLit(t, k) THEN d
                 ELSE IF c \in Openers THEN d + 1
                 ELSE IF c \in {"}", "]"} /\ d > 0 THEN d - 1
                 ELSE d)

\* the top-level spans <<s, e>> (1-based, inclusive) of a text
TopSpans(t) ==
    LET ds == RefDepths(t, Len(t))
        D(k) == IF k = 0 THEN 0 ELSE ds[k]
    IN  {sp \in (1..Len(t)) \X (1..Len(t)) :
            /\ sp[1] < sp[2]
            /\ D(sp[1] - 1) = 0 /\ D(sp[1]) = 1
            /\ D(sp[2]) = 0
            /\ \A m \in sp[1]..(sp[2] - 1) : D(m) > 0}

\* the braces and brackets outside literals pair up, each closer with an
\* opener of its own kind, and none is left open
RECURSIVE MatchedFrom(_, _, _)
MatchedFrom(t, k, stack) ==
    IF k > Len(t) THEN stack = <<>>
    ELSE IF InLit(t, k) \/ t[k] \notin Delims THEN MatchedFrom(t, k + 1, stack)
    ELSE IF t[k] \in Openers THEN MatchedFrom(t, k + 1, <<t[k]>> \o stack)
    ELSE /\ stack # <<>>
         /\ Head(stack) = (IF t[k] = "}" THEN "{" ELSE "[")
         /\ MatchedFrom(t, k + 1, Tail(stack))
Matched(t) == MatchedFrom(t, 1, <<>>) /\ ~InLit(t, Len(t) + 1)

SpanText(t, sp) == SubSeq(t, sp[1], sp[2])
Parses(t) == JSONParse(t).ok

\* deep equality of two parsed values
RECURSIVE JEq(_, _)
JEq(a, b) ==
    /\ a.kind = b.kind
    /\ CASE a.kind = "arr" ->
              /\ Len(a.val) = Len(b.val)
              /\ \A k \in 1..Len(a.val) : JEq(a.val[k], b.val[k])
         [] a.kind = "obj" ->
              /\ Len(a.val) = Len(b.val)
              /\ \A k \in 1..Len(a.val) :
                     /\ a.val[k].key = b.val[k].key
                     /\ JEq(a.val[k].val, b.val[k].val)
         [] OTHER -> a.val = b.val

\* no brace or bracket outside a literal, and every literal closed
Plain(p) ==
    /\ \A k \in 1..Len(p) : p[k] \in Delims => InLit(p, k)
    /\ ~InLit(p, Len(p) + 1)

\* prose: none of the characters the scan looks at
Prose(c) == c \notin Delims \cup {QUOTE, BSLASH}

(***************************************************************************)
(* Properties of extractJSON (SpecExtract).                                *)
(***************************************************************************)

\* C4: for every text prefix + A + suffix, A the text of a valid JSON
\* array and prefix, suffix free of braces and brackets outside string
\* literals, extractJSON returns a value equal to JSON.parse(A).
C4_ArrayInProse ==
    scan.done =>
        \A a \in 1..Len(str) : \A b \in a..Len(str) :
            ( /\ str[a] = "["
              /\ Parses(SubSeq(str, a, b))
              /\ Plain(SubSeq(str, 1, a - 1))
              /\ Plain(SubSeq(str, b + 1, Len(str))) )
            => /\ scan.found
               /\ JEq(scan.json, JSONParse(SubSeq(str, a, b)).val)

\* C5: whenever some top-level span of the text parses as JSON, extractJSON
\* returns the value and 0-based start offset of the leftmost such span
\* (stated for texts whose braces and brackets are matched, where a
\* top-level span has one meaning).
C5_FirstTopLevelSpan ==
    (scan.done /\ Matched(str)) =>
        LET good == {sp \in TopSpans(str) : Parses(SpanText(str, sp))}
        IN  good # {} =>
                LET first == CHOOSE sp \in good :
                                 \A o \in good : sp[1] <= o[1]
                IN  /\ scan.found
                    /\ scan.index = first[1] - 1
                    /\ JEq(scan.json, JSONParse(SpanText(str, first)).val)

\* C6: extractJSON returns null for every text none of whose spans that
\* begin with a brace or bracket is a syntactically valid JSON value.
NoValidSpan(t) ==
    \A a \in 1..Len(t) : \A b \in a..Len(t) :
        t[a] \in Openers => ~Parses(SubSeq(t, a, b))

C7_LaterSpanFound ==
    (scan.done /\ Matched(str)) =>
        \A bad \in TopSpans(str) : \A ok \in TopSpans(str) :
            ( /\ bad[2] < ok[1]
              /\ Parses(SpanText(str, ok))
              /\ \A o \in TopSpans(str) :
                     o[1] < ok[1] => ~Parses(SpanText(str, o)) )
            => /\ scan.found
               /\ scan.index = ok[1] - 1
               /\ JEq(scan.json, JSONParse(SpanText(str, ok)).val)

\* C8: a brace or bracket inside a string literal (an escaped quote not
\* closing the literal) changes neither depth nor start, and a prose
\* character put before a text shifts the result of extractJSON by one
\* offset and changes nothing else: JSON need not begin at offset 0.
ShiftedBy(r, n) ==
    [found |-> r.found, json |-> r.json,
     index |-> IF r.found THEN r.index + n ELSE r.index]
Returned(s) == [found |-> s.found, json |-> s.json, index |-> s.index]

C8_LiteralStep ==
    ( /\ ~scan.done
      /\ scan.i < Len(str)
      /\ str[scan.i + 1] \in Delims
      /\ InLit(str, scan.i + 1) )
    => /\ scan'.depth = scan.depth
       /\ scan'.start = scan.start
       /\ ~scan'.done

SameReturn(r, q) ==
    r.found = q.found /\ r.index = q.index /\ JEq(r.json, q.json)

C8_OffsetFree ==
    (scan.done /\ str # <<>> /\ Prose(Head(str)))
    => SameReturn(Returned(scan),
                  ShiftedBy(Returned(ExtractJSON(Tail(str))), 1))

C8_StringsAndOffset == [][C8_LiteralStep]_vars /\ []C8_OffsetFree

\* JSON found after a prose character and a literal that holds a delimiter
C8_Witness ==
    /\ scan.done /\ scan.found /\ scan.index > 1
    /\ Prose(Head(str))
    /\ \E k \in 1..scan.index : str[k] \in Delims /\ InLit(str, k)

(***************************************************************************)
(* Properties of callDeepSeek (SpecCall).                                  *)
(***************************************************************************)
AllFailed == \A k \in 1..Len(replies) : ~replies[k].ok
Failures == Cardinality({k \in 1..Len(replies) : ~replies[k].ok})

\* C1: when every attempt raises an error, callDeepSeek makes exactly 6
\* attempts and then returns null; it never ends any other way.
C1_SixAttemptsThenNull ==
    AllFailed =>
        /\ Len(replies) <= 6
        /\ call.pc \in {"request", "sleep", "returned"}
        /\ call.pc = "returned" <=> Len(replies) = 6
        /\ call.pc = "returned" => call.ret = Null
        /\ call.pc = "sleep" => call.a = Len(replies)
        /\ call.pc = "request" => call.a = Len(replies) + 1

\* six failed attempts, a timeout among them, and null returned
C1_Witness ==
    /\ call.pc = "returned" /\ call.ret = Null
    /\ Len(replies) = 6 /\ AllFailed
    /\ \E k \in 1..6 : replies[k].cause = "timeout"

\* C2: when the first k attempts fail (k < 6) and attempt k+1 succeeds with
\* a non-empty payload, the call returns that payload after exactly k+1
\* attempts and has waited 1000 * (2^k - 1) ms in all.
C2_PayloadAfterBackoff ==
    ( /\ call.pc = "returned"
      /\ replies # <<>>
      /\ replies[Len(replies)].ok
      /\ ~Falsy(replies[Len(replies)].content) )
    => LET k == Len(replies) - 1
       IN  /\ k < 6
           /\ Failures = k
           /\ call.a = k + 1
           /\ call.ret = replies[k + 1].content
           /\ call.waited = 1000 * (Pow2(k) - 1)
           /\ Len(console) = k

\* five failures, then the payload, 31 s of backoff behind it
C2_Witness ==
    /\ call.pc = "returned" /\ call.ret = Text(Payload)
    /\ Len(replies) = 6 /\ Failures = 5
    /\ call.waited = 31000

\* C3: a call that returns after fewer than 6 attempts returns a non-empty
\* text payload; null is returned only once all 6 attempts are used up.
C3_NullOnlyAfterSix ==
    (call.pc = "returned" /\ Len(replies) < 6) => ~Falsy(call.ret)

(***************************************************************************)
(* Properties of POST /generate-book (Spec).                               *)
(***************************************************************************)
Succeeded == kind = "book" /\ pc = "done" /\ response.status = 200
BookEnded == kind = "book" /\ pc \in {"done", "crashed"}

\* C9: for a requested chapter count N in 3..15, a run that ends with the
\* success response has an outline of exactly N entries and exactly N
\* generated chapters, the chapter at outline position p carrying index p.
C9_OutlineMatchesCount ==
    ( /\ Succeeded
      /\ ~chapterCount.nan
      /\ chapterCount.n \in MinChapters..MaxChapters )
    => /\ outline.kind = "arr"
       /\ Len(outline.val) = chapterCount.n
       /\ Len(chapterCalls) = chapterCount.n
       /\ \A p \in 1..Len(chapterCalls) :
              /\ chapterCalls[p].idx = p
              /\ ~Falsy(chapterCalls[p].c.ret)

\* what the outline call handed back, once the overview stage has passed
OutlineStageFailed ==
    /\ ~Falsy(overview)
    /\ stageCall.pc = "returned"
    /\ \/ Falsy(stageCall.ret)
       \/ ~ExtractJSON(stageCall.ret.text).found

\* C10: once the request has ended, a null from the overview call gives the
\* 503 of the overview stage, a null from the outline call or an outline
\* reply without extractable JSON gives the 503 of the outline stage, and a
\* null from any chapter call gives the 503 of the chapters stage; no stage
\* failure ends the handler by an exception.
C10_StageFailureGives503 ==
    BookEnded =>
      /\ (response.status # 400 /\ Falsy(overview))
            => ( pc = "done"
                 /\ response = Fail(503, "Overview generation failed") )
      /\ OutlineStageFailed
            => ( pc = "done"
                 /\ response = Fail(503, "Outline generation failed") )
      /\ (\E i \in 1..Len(chapterCalls) : Falsy(chapterCalls[i].c.ret))
            => ( pc = "done"
                 /\ response = Fail(503, "One or more chapters failed") )

(***************************************************************************)
(* Properties of the server (Spec): failures, persistence, downloads.      *)
(***************************************************************************)
FailureSent ==
    /\ kind \in {"book", "generate"}
    /\ pc = "done"
    /\ response.status \in {400, 503}

\* C11: a POST /generate-book or POST /generate run that ends with a 400
\* or 503 response has written nothing: the store is what it was when the
\* request arrived.
C11_FailureWritesNothing == FailureSent => store = before

\* one of three parallel chapter calls failed all 6 attempts, the other two
\* returned their text, the 503 of the chapters stage was sent; the store
\* held an earlier run's records
C11_Witness ==
    /\ FailureSent /\ kind = "book"
    /\ response = Fail(503, "One or more chapters failed")
    /\ before # EmptyStore
    /\ Len(chapterCalls) = 3
    /\ \E i \in 1..3 :
          /\ chapterCalls[i].c.a = MaxRetries
          /\ chapterCalls[i].c.ret = Null
          /\ \A j \in (1..3) \ {i} : ~Falsy(chapterCalls[j].c.ret)

\* a chapters field that is the decimal text of an integer in 3..15
AllDigits(t) == t # <<>> /\ \A i \in 1..Len(t) : t[i] \in Digits
CountWellFormed(c) ==
    /\ ~Falsy(c)
    /\ AllDigits(c.text)
    /\ ParseInt(c.text).n \in MinChapters..MaxChapters

\* C12: a POST /generate-book request without keywords or chapters, or
\* with a chapter count that is no integer in 3..15, is answered with a 4xx
\* response and no remote call is started for it; a staged
\* POST /generate-book-outline request with such a count is rejected too.
C12_InvalidRejectedEarly ==
    ( /\ kind = "book"
      /\ pc # "start"
      /\ Falsy(req.keywords) \/ ~CountWellFormed(req.chapters) )
    => /\ pc = "done"
       /\ response.status \in 400..499
       /\ stageCall = CallInit /\ chapterCalls = <<>>
       /\ ~CountWellFormed(req.chapters) =>
              StagedOutlineRejected(Text(OverviewReply),
                  IF Falsy(req.chapters) THEN NaN
                  ELSE ParseInt(req.chapters.text))

InFlight(c) == c.pc # "returned"

\* C13: while any chapter call of the run is still in flight no response
\* has been sent; so the chapter-failure response goes out only after
\* every chapter call has returned its text or null.
C13_FailureAfterAllSettled ==
    ( /\ kind = "book"
      /\ \E i \in 1..Len(chapterCalls) : InFlight(chapterCalls[i].c) )
    => response = NoResponse

\* the chapter-failure response after one call returned null at its first
\* attempt while a sibling needed all six attempts to return its text
C13_Witness ==
    /\ kind = "book"
    /\ response = Fail(503, "One or more chapters failed")
    /\ Len(chapterCalls) = 3
    /\ \A i \in 1..3 : ~InFlight(chapterCalls[i].c)
    /\ \E i, j \in 1..3 :
          /\ chapterCalls[i].c.ret = Null /\ chapterCalls[i].c.a = 1
          /\ ~Falsy(chapterCalls[j].c.ret) /\ chapterCalls[j].c.a = MaxRetries

BookKeys(sl) ==
    {Key("book-overview", sl), Key("book-outline", sl), Key("book-full", sl)}
Holds(st, key, value) == key \in DOMAIN st /\ st[key] = value
\* st differs from st0 at the keys ks at most
SameOutside(st, st0, ks) ==
    /\ DOMAIN st0 \subseteq DOMAIN st \cup ks
    /\ \A k \in DOMAIN st \ ks : k \in DOMAIN st0 /\ st[k] = st0[k]

\* C14: a POST /generate-book run that answers with slug s has written the
\* overview text to book-overview:s, the serialized outline to
\* book-outline:s and the assembled document to book-full:s, and has
\* written no other key.
C14_ThreeRecordsUnderSlug ==
    Succeeded =>
      /\ response.slug = book.slug
      /\ Holds(store, Key("book-overview", response.slug), overview.text)
      /\ Holds(store, Key("book-outline", response.slug), Stringify(outline))
      /\ Holds(store, Key("book-full", response.slug),
               Assemble(overview, outline, ChaptersRaw))
      /\ SameOutside(store, before, BookKeys(response.slug))

\* a second successful run under slug a, with an other slug's records and
\* an earlier book of slug a already in the store
C14_Witness ==
    /\ Succeeded
    /\ response.slug = SlugA
    /\ \/ Key("book-full", SlugAOverview) \in DOMAIN before
       \/ /\ Key("book-outline", SlugA) \in DOMAIN before
          /\ before[Key("book-outline", SlugA)] # Stringify(outline)

\* the slugs under which all three book records are in the store
Persisted(st) ==
    {k.slug : k \in {j \in DOMAIN st : BookKeys(j.slug) \subseteq DOMAIN st}}
Downloaded(fn) == kind = "download" /\ pc = "done" /\ target = fn
\* the number of entries of the outline stored under the slug
StoredEntries(st, sl) == Len(JSONParse(st[Key("book-outline", sl)]).val.val)
ChapterHeading == "\n---\n\n# Chapter "
HeadingAt(body) == {i \in 1..Len(body) : body[i] = ChapterHeading}
\* the body has m chapter headings and the k-th of them is numbered k
HeadingsInOrder(body, m) ==
    /\ Cardinality(HeadingAt(body)) = m
    /\ \A i \in HeadingAt(body) :
         \E n \in {NatText(Cardinality({j \in HeadingAt(body) : j <= i}))
                   \o <<": ">>} :
           SubSeq(body, i + 1, i + Len(n)) = n

\* C15: for every slug s whose three book records are stored, GET
\* /download/s.md answers with the value of book-full:s, and that value has
\* the headings Chapter 1 .. Chapter M in increasing order, M the number of
\* entries of the stored outline.
C15_DownloadReturnsFullBook ==
    \A sl \in Persisted(store) :
      Downloaded(sl \o DotMd) =>
        /\ download.status = 200
        /\ download.body = store[Key("book-full", sl)]
        /\ HeadingsInOrder(download.body, StoredEntries(store, sl))

\* C16: for every slug s whose three book records are stored, GET
\* /download/s-overview.md answers with the value of book-overview:s and GET
\* /download/s-outline.json answers with the value of book-outline:s.
C16_DownloadReturnsOverviewAndOutline ==
    \A sl \in Persisted(store) :
      /\ Downloaded(sl \o OverviewSuffix) =>
           /\ download.status = 200
           /\ download.body = store[Key("book-overview", sl)]
      /\ Downloaded(sl \o OutlineSuffix) =>
           /\ download.status = 200
           /\ download.body = store[Key("book-outline", sl)]

\* C17: when POST /generate has stored its content under slug s, GET
\* /download/s.md answers with that content.
C17_GeneratedContentDownloadable ==
    \A k \in DOMAIN store :
      k.prefix = "content" /\ Downloaded(k.slug \o DotMd) =>
        /\ download.status = 200
        /\ download.body = store[k]

\* C18: a download whose resolved key is absent from the store is answered
\* with 404 Not found, never with a server error, and the store is what it
\* was when the request arrived.
C18_AbsentKeyNotFound ==
    (kind = "download" /\ pc = "done"
     /\ Resolve(target).key \notin DOMAIN store) =>
      /\ download = NotFound
      /\ download.status \notin 500..599
      /\ store = before

\* a download of a missing record from a store that holds a book
C18_Witness ==
    /\ kind = "download"
    /\ pc = "done"
    /\ Resolve(target).key \notin DOMAIN store
    /\ store # EmptyStore

\* C19: a record that was in the store when a request arrived still has the
\* same value during and after that request, unless the request is the
\* delete of that key.
C19_RecordsImmutable ==
    \A k \in DOMAIN before :
      IF k \in DOMAIN store THEN store[k] = before[k]
      ELSE kind = "delete" /\ target = k

\* the outline stored under a slug, and the keywords texts that share the
\* first keyword of kw
StoredOutline(st, sl) == JSONParse(st[Key("book-outline", sl)]).val
FirstKeyword(kw) == Trim(BeforeSep(kw.text, <<",">>))
KeywordVariants(kw) ==
    {Text(pre \o FirstKeyword(kw) \o post) :
       pre \in {<<>>, <<" ">>}, post \in {<<>>, <<",", "x">>, <<" ", ",">>}}
GenerateSucceeded == kind = "generate" /\ pc = "done" /\ response.status = 200

\* C20: a run derives the slug an earlier run derived from the same title
\* and so addresses the three keys that run wrote; with an empty title the
\* slug is the same for every keywords text with the same first keyword;
\* POST /generate derives the slug an earlier run derived from the same
\* title line; and the slug of a slug is that slug.
C20_SlugDeterministic ==
    /\ Succeeded =>
         /\ \A sl \in Persisted(before) :
              (BookTitle(outline) # <<>>
               /\ BookTitle(StoredOutline(before, sl)) = BookTitle(outline))
              => /\ response.slug = sl
                 /\ BookKeys(response.slug) = BookKeys(sl)
                 /\ BookKeys(sl) \subseteq DOMAIN store
         /\ BookTitle(outline) = <<>> =>
              \A kw \in KeywordVariants(req.keywords) :
                BookSlug(outline, kw) = response.slug
         /\ Slugify(response.slug) = response.slug
    /\ GenerateSucceeded =>
         /\ \A k \in DOMAIN before :
              (k.prefix = "overview"
               /\ TitleOrDefault(FindTitleLine(before[k]))
                  = TitleOrDefault(FindTitleLine(gen.overview.text)))
              => response.slug = k.slug
         /\ Slugify(response.slug) = response.slug

\* a second run whose outline differs from the stored one and has the same
\* title
C20_Witness ==
    /\ Succeeded
    /\ \E sl \in Persisted(before) :
         /\ BookTitle(StoredOutline(before, sl)) = BookTitle(outline)
         /\ StoredOutline(before, sl) # outline

\* C21: in POST /generate-book the outline call is under way only with a
\* non-empty overview, chapter calls exist only once the outline has been
\* extracted as an array, the store is written only after every chapter
\* call has returned a text, and the slug is answered only after the third
\* write.
C21_StageOrder ==
    kind = "book" =>
      /\ pc = "outline" => ~Falsy(overview)
      /\ chapterCalls # <<>> =>
           /\ ~Falsy(overview)
           /\ outline.kind = "arr"
           /\ Len(chapterCalls) = Len(outline.val)
      /\ store # before =>
           /\ pc \in {"set2", "set3", "respond", "done"}
           /\ outline.kind = "arr"
           /\ AllSettled(chapterCalls)
           /\ \A i \in 1..Len(chapterCalls) : ~Falsy(ChaptersRaw[i])
      /\ response.status = 200 =>
           /\ pc = "done"
           /\ Holds(store, Key("book-overview", book.slug), overview.text)
           /\ Holds(store, Key("book-outline", book.slug), Stringify(outline))
           /\ Holds(store, Key("book-full", book.slug), book.fullBook)

\* a successful run of three chapters in which a chapter call needed a
\* second attempt
C21_Witness ==
    /\ Succeeded
    /\ Len(chapterCalls) = 3
    /\ \E i \in 1..3 : chapterCalls[i].c.a = 2

\* C24: callDeepSeek (and fetchLecture, the same loop) sleeps only after a
\* failed attempt a < 6, for 1000 * 2^(a-1) ms; attempt a is under way only
\* when the a-1 attempts before it have failed and their timers have run
\* out; the sixth failure returns null with no timer started.
C24_BackoffSchedule ==
    /\ call.pc = "sleep" =>
         /\ call.a < 6
         /\ Len(replies) = call.a
         /\ ~replies[call.a].ok
         /\ call.delay = 1000 * Pow2(call.a - 1)
         /\ call.delay \in {1000, 2000, 4000, 8000, 16000}
         /\ call.waited = 1000 * (Pow2(call.a - 1) - 1)
    /\ call.pc = "request" =>
         /\ call.a \in 1..6
         /\ Len(replies) = call.a - 1
         /\ \A k \in 1..Len(replies) : ~replies[k].ok
         /\ call.delay = 0
         /\ call.waited = 1000 * (Pow2(call.a - 1) - 1)
    /\ (Len(replies) = 6 /\ ~replies[6].ok) =>
         /\ call.pc = "returned"
         /\ call.ret = Null
         /\ call.delay = 0
         /\ call.waited = 31000

\* the 16 s sleep after the fifth failure
C24_Witness ==
    /\ call.pc = "sleep"
    /\ call.a = 5
    /\ call.delay = 16000
    /\ call.waited = 15000

\* the position of the i-th chapter heading of a document, and the text from
\* there to the line break before the next heading
HeadingPos(body, i) ==
    CHOOSE p \in HeadingAt(body) :
        Cardinality({q \in HeadingAt(body) : q <= p}) = i
SectionText(body, i) ==
    SubSeq(body, HeadingPos(body, i),
           IF i = Cardinality(HeadingAt(body)) THEN Len(body)
           ELSE HeadingPos(body, i + 1) - 2)
ChapterText(i) == chapterCalls[i].c.ret.text

\* C22: in whatever order the chapter calls returned, call i was issued for
\* outline entry i with index i, and section i of the assembled book ends
\* with the text that call returned.
C22_ChaptersKeepPosition ==
    (kind = "book" /\ pc \in {"set1", "set2", "set3", "respond", "done"}
     /\ book # NoBook) =>
      /\ Cardinality(HeadingAt(book.fullBook)) = Len(outline.val)
      /\ \A i \in 1..Len(outline.val) :
           /\ chapterCalls[i].idx = i
           /\ chapterCalls[i].meta = outline.val[i]
           /\ ChapterText(i) = ChapterReply(i)
           /\ EndsWith(SectionText(book.fullBook, i),
                       <<"*\n\n">> \o ChapterText(i))

\* a stored book whose chapter calls returned in the order 3, 1, 2
C22_Witness ==
    /\ Succeeded
    /\ settled = <<3, 1, 2>>

\* C23: while a chapter call sleeps between attempts, every other chapter
\* call of the run that is at an attempt can have it answered or failed, and
\* every other sleeping call can have its timer fire.
C23_SleepIsPerCall ==
    (kind = "book" /\ pc = "chapters") =>
      \A i \in 1..Len(chapterCalls) :
        chapterCalls[i].c.pc = "sleep" =>
          \A j \in 1..Len(chapterCalls) \ {i} :
            /\ chapterCalls[j].c.pc = "request" =>
                 /\ ENABLED ChapterSucceedsAt(j)
                 /\ ENABLED ChapterFailsAt(j)
            /\ chapterCalls[j].c.pc = "sleep" => ENABLED ChapterTimerAt(j)

\* call 3 returned on its third attempt and call 2 is at an attempt, both
\* while call 1 is in the sleep that follows its first failure and nothing
\* else has returned
C23_Witness ==
    /\ kind = "book"
    /\ pc = "chapters"
    /\ Len(chapterCalls) = 3
    /\ chapterCalls[1].c.pc = "sleep"
    /\ chapterCalls[1].c.a = 1
    /\ chapterCalls[2].c.pc = "request"
    /\ chapterCalls[3].c.pc = "returned"
    /\ chapterCalls[3].c.a = 3
    /\ settled = <<3>>

\* the outline call of the request has returned a reply from which no JSON
\* comes out
OutlineWithoutJSON ==
    /\ issued.outline > 0
    /\ pc \in {"done", "crashed"}
    /\ stageCall.pc = "returned"
    /\ \/ stageCall.ret.isNull
       \/ ~ExtractJSON(stageCall.ret.text).found

\* C25: a POST /generate-book request invokes the remote caller at most
\* once for the overview, at most once for the outline and once for each
\* outline entry; after a 503 no call is running and none was made beyond
\* the failed stage; an outline reply without JSON ends the request with
\* no chapter call made.
C25_NoStageRetry ==
    kind = "book" =>
      /\ issued.overview <= 1
      /\ issued.outline <= issued.overview
      /\ issued.content = 0
      /\ issued.chapter = Len(chapterCalls)
      /\ chapterCalls # <<>> =>
           /\ issued.outline = 1
           /\ Len(chapterCalls) = Len(outline.val)
           /\ \A i \in 1..Len(chapterCalls) : chapterCalls[i].idx = i
      /\ response.status = 503 =>
           /\ pc = "done"
           /\ stageCall.pc = "returned" \/ stageCall = CallInit
           /\ AllSettled(chapterCalls)
           /\ response.error = "Overview generation failed" =>
                issued = Issue(NoCalls, "overview", 1)
           /\ response.error = "Outline generation failed" =>
                issued = Issue(Issue(NoCalls, "overview", 1), "outline", 1)
      /\ OutlineWithoutJSON => issued.chapter = 0 /\ chapterCalls = <<>>

\* the outline call answered with prose only: 503 after two calls in all
C25_Witness ==
    /\ kind = "book"
    /\ pc = "done"
    /\ response = Fail(503, "Outline generation failed")
    /\ OutlineWithoutJSON
    /\ stageCall.ret.text # <<>>
    /\ issued = Issue(Issue(NoCalls, "overview", 1), "outline", 1)

Assembled == kind = "book" /\ book # NoBook
TopHeading == "# "
OverviewHeading == "\n\n## Overview\n\n"
\* the heading text: the title before the separator, or the placeholder
HeadingText(ol) ==
    IF BookTitle(ol) = <<>> THEN <<"Untitled Book">> ELSE BookTitle(ol)

\* C26: the assembled document is one top-level heading, the overview
\* section, and then one section for each outline entry in outline order:
\* section i is the heading Chapter i, entry i's title, entry i's synopsis
\* between asterisks and the text of chapter i.
C26_AssembledLayout ==
    Assembled =>
      /\ Cardinality({p \in 1..Len(book.fullBook) :
                        book.fullBook[p] = TopHeading}) = 1
      /\ Cardinality({p \in 1..Len(book.fullBook) :
                        book.fullBook[p] = OverviewHeading}) = 1
      /\ Cardinality(HeadingAt(book.fullBook)) = Len(outline.val)
      /\ SubSeq(book.fullBook, 1, HeadingPos(book.fullBook, 1) - 2)
           = <<TopHeading>> \o HeadingText(outline) \o <<OverviewHeading>>
             \o overview.text \o <<"\n\n">>
      /\ \A i \in 1..Len(outline.val) :
           SectionText(book.fullBook, i)
             = <<ChapterHeading>> \o NatText(i) \o <<": ">>
               \o Prop(outline.val[i], TitleKey).val \o <<"\n\n*">>
               \o Prop(outline.val[i], SynopsisKey).val \o <<"*\n\n">>
               \o ChapterText(i)

\* a three-section document has been assembled and stored
C26_Witness ==
    /\ Assembled
    /\ pc = "done"
    /\ Len(outline.val) = 3
    /\ Holds(store, Key("book-full", book.slug), book.fullBook)

\* the first outline entry has no title text before the separator
NoUsableTitle(ol) ==
    /\ ol.kind = "arr"
    /\ Len(ol.val) > 0
    /\ \/ Prop(ol.val[1], TitleKey).kind # "str"
       \/ BeforeSep(Prop(ol.val[1], TitleKey).val, TitleSep) = <<>>
ChaptersDone ==
    /\ kind = "book"
    /\ pc \in {"set1", "set2", "set3", "respond", "done", "crashed"}
    /\ chapterCalls # <<>>
    /\ \A i \in 1..Len(chapterCalls) :
         chapterCalls[i].c.pc = "returned" /\ ~Falsy(chapterCalls[i].c.ret)

\* C27: when every chapter has been generated and the first outline entry
\* has no usable title, the run goes on to assemble under the heading
\* Untitled Book, derives the slug from the trimmed first keyword, and ends
\* with its three records stored.
C27_UntitledFallback ==
    (ChaptersDone /\ NoUsableTitle(outline)) =>
      /\ pc # "crashed"
      /\ book # NoBook
      /\ SubSeq(book.fullBook, 1, 2) = <<TopHeading, "Untitled Book">>
      /\ book.slug = Slugify(FirstKeyword(req.keywords))
      /\ pc = "done" =>
           /\ response = Success(book.slug)
           /\ BookKeys(book.slug) \subseteq DOMAIN store

\* C28: for every slug that had no book record when the request arrived,
\* book-full present implies book-outline present and book-outline present
\* implies book-overview present, in every state of the run.
C28_WriteOrder ==
    \A sl \in {k.slug : k \in DOMAIN store} :
      BookKeys(sl) \cap DOMAIN before = {} =>
        /\ Key("book-full", sl) \in DOMAIN store
             => Key("book-outline", sl) \in DOMAIN store
        /\ Key("book-outline", sl) \in DOMAIN store
             => Key("book-overview", sl) \in DOMAIN store

\* the run has written the overview and the outline of a new slug and not
\* yet the full document
C28_Witness ==
    /\ kind = "book"
    /\ pc = "set3"
    /\ BookKeys(book.slug) \cap DOMAIN before = {}
    /\ Key("book-outline", book.slug) \in DOMAIN store
    /\ Key("book-full", book.slug) \notin DOMAIN store

\* the three records of a slug are the ones handler r wrote
FromRun(r, sl) ==
    /\ Holds(store, Key("book-overview", sl), runs[r].overview)
    /\ Holds(store, Key("book-outline", sl), Stringify(runs[r].outline))
    /\ Holds(store, Key("book-full", sl), runs[r].fullBook)
BothResponded == \A r \in RunIds : runs[r].response.status = 200

Validated == kind = "book" /\ issued.overview = 1

\* C30: a validated POST /generate-book request whose handler has come to
\* its end has been answered with 200 and a slug or with 503.
C30_ValidatedRequestAnswered ==
    (Validated /\ pc \in {"done", "crashed"}) =>
      \/ response.status = 200 /\ response.slug = book.slug
      \/ response.status = 503

\* the whole text is one JSON object or array, with nothing around it
WholeJSON(t) ==
    /\ t # <<>>
    /\ t[1] \in Openers
    /\ t[Len(t)] \in {"]", "}"}
    /\ Parses(t)

\* C31: for a text that is as a whole a valid JSON object or array,
\* extractJSON returns the value JSON.parse gives for the whole text, with
\* start offset 0.
C31_WholeTextReturned ==
    (scan.done /\ WholeJSON(str)) =>
        /\ scan.found
        /\ scan.index = 0
        /\ JEq(scan.json, JSONParse(str).val)

\* C32: every chapter call of a POST /generate-book request carries the
\* chapter count of the request as its total and an index idx with
\* 1 <= idx <= total, and there are as many chapter calls as the extracted
\* outline has entries.
C32_IndexWithinTotal ==
    (kind = "book" /\ chapterCalls # <<>>) =>
      /\ Len(chapterCalls) = Len(outline.val)
      /\ issued.chapter = Len(outline.val)
      /\ \A i \in 1..Len(chapterCalls) :
           /\ chapterCalls[i].total = chapterCount
           /\ ~chapterCalls[i].total.nan
           /\ 1 <= chapterCalls[i].idx
           /\ chapterCalls[i].idx <= chapterCalls[i].total.n

\* chaptersRaw of the handler that is writing: the results of its chapter
\* calls, or the array of the /assemble-book body
HandlerChapters ==
    IF kind = "assemble" THEN req.chaptersRaw.items ELSE ChaptersRaw
WrittenNow(k) == k \in DOMAIN store /\ (k \in DOMAIN before => store[k] # before[k])

\* C33: when a request has written a book-full record, its overview is
\* non-empty and each outline entry has a non-empty chapter text, for POST
\* /generate-book and POST /assemble-book alike.
C33_FullBookComplete ==
    (kind \in {"book", "assemble"} /\ WrittenNow(Key("book-full", book.slug)))
    => /\ ~Falsy(overview)
       /\ \A i \in 1..Len(outline.val) :
            /\ i <= Len(HandlerChapters)
            /\ ~Falsy(HandlerChapters[i])

\* the request the flow sends in place k when the outline has m entries
Expected(k, m) ==
    IF k = 1 THEN [route |-> "overview", idx |-> 0]
    ELSE IF k = 2 THEN [route |-> "outline", idx |-> 0]
    ELSE IF k - 2 <= m THEN [route |-> "chapter", idx |-> k - 2]
    ELSE [route |-> "assemble", idx |-> 0]
AssembleSent ==
    \E k \in 1..Len(flow.sent) : flow.sent[k].route = "assemble"

\* C34: the staged flow sends its requests in the order overview, outline,
\* chapter 1..M, assemble, each one only after the one before it has
\* succeeded; so /assemble-book is requested only with a non-empty text for
\* every chapter, and a failed request is the last one and leaves the store
\* unwritten.
C34_StagedOrder ==
    /\ Len(flow.sent) <= LengthOf(flow.chapterOutline) + 3
    /\ Len(flow.outcomes) <= Len(flow.sent)
    /\ Len(flow.sent) <= Len(flow.outcomes) + 1
    /\ \A k \in 1..Len(flow.sent) :
         /\ flow.sent[k] = Expected(k, LengthOf(flow.chapterOutline))
         /\ k < Len(flow.sent) => flow.outcomes[k] = "ok"
    /\ AssembleSent =>
         /\ Len(flow.generatedChapters) = LengthOf(flow.chapterOutline)
         /\ \A i \in 1..Len(flow.generatedChapters) :
              ~Falsy(flow.generatedChapters[i])
    /\ (\E k \in 1..Len(flow.outcomes) : flow.outcomes[k] = "failed") =>
         store = EmptyStore
    /\ flow.pc = "error" =>
         /\ flow.outcomes # <<>>
         /\ flow.outcomes[Len(flow.outcomes)] = "failed"

\* a flow that wrote three chapters one after the other and stored the book
C34_Witness ==
    /\ flow.pc = "done"
    /\ Len(flow.generatedChapters) = 3
    /\ Len(flow.sent) = 6
    /\ Key("book-full", flow.slug) \in DOMAIN store

\* C35: throughout a scan the depth is never negative, and while it is
\* positive start is set and is the offset of an opening brace or bracket
\* of the text, at or before the cursor.
C35_DepthAndStart ==
    /\ scan.depth >= 0
    /\ scan.depth > 0 =>
         /\ scan.start # NoStart
         /\ 0 <= scan.start
         /\ scan.start <= scan.i
         /\ scan.start < Len(str)
         /\ str[scan.start + 1] \in Openers

\* mid-scan, two levels deep inside an object that started after some
\* other character
C35_Witness ==
    /\ ~scan.done
    /\ scan.depth = 2
    /\ scan.start > 0
    /\ scan.i > scan.start + 2

=============================================================================
